---- MODULE Spec2Model ----
(***************************************************************************)
(* Enrichment pipeline of scripts/scraper/scrape_to_db.py: the planner and *)
(* the extraction cascades of scrape_school, the three category merges     *)
(* (db_update_pricing, db_update_schedule, db_update_about), the save step *)
(* _save_school_updates and the batch loop of main, over a SQLite          *)
(* connection whose writes become durable only at conn.commit().           *)
(*                                                                         *)
(* Values.  A Python Optional payload is None (the empty tuple) or         *)
(* Some(x) (a one-element tuple).  A dict is a function whose DOMAIN is    *)
(* the set of its keys; a list is a sequence, and a list-valued field of a *)
(* JSON object is an Optional list (JSON null is None).  A scalar is a     *)
(* string;                                                                 *)
(* Null stands for Python None / SQL NULL in a scalar position, and the    *)
(* numbers 0, 20, 30, 100, 150 are written "0", "20", "30", "100", "150".  *)
(***************************************************************************)
EXTENDS Integers, Sequences, FiniteSets, TLC

None == <<>>
Some(x) == <<x>>
Null == "NULL"

\* datetime.now(timezone.utc).strftime("%Y-%m-%d"), fixed when the process starts
TODAY == "2026-01-02"
\* lastUpdated written by the discovery collaborator when the record was created
SeedDate == "2026-01-01"

\* dict.get(k): the value, or None when the key is missing
Get(d, k) == IF k \in DOMAIN d THEN d[k] ELSE Null
\* dict.get(k, default)
GetD(d, k, default) == IF k \in DOMAIN d THEN d[k] ELSE default

\* Python truthiness of a scalar: None, 0 and "" are falsy
Truthy(v) == v \notin {Null, "0", ""}
\* Python truthiness of an Optional dict or list: None, {} and [] are falsy
TruthyOpt(o) == o # None /\ DOMAIN o[1] # {}

EmptyObj == <<>>

(***************************************************************************)
(* The store: relation schools (one row per record), schedule_entries      *)
(* (rows in insertion order, per record), styles (tag names) and           *)
(* school_styles (record-tag associations).                                *)
(***************************************************************************)
Ids == {"a", "b", "c"}
\* ORDER BY s.city, s.name
Order == <<"a", "b", "c">>

\* seeds.yaml: "c" has no seed entry and no website_url in its row
SeedsYaml ==
    [a |-> [id |-> "a", website |-> "https://a/", pricing_url |-> "", schedule_url |-> ""],
     b |-> [id |-> "b", website |-> "https://b/", pricing_url |-> "https://b/cennik",
            schedule_url |-> "https://b/grafik"]]

\* a listing as the discovery collaborator creates it
NewRow(city, website, phone, source) ==
    [city |-> city, website_url |-> website,
     price |-> Null, trial_price |-> Null, single_class_price |-> Null,
     pricing_notes |-> Null, last_price_check |-> Null, last_updated |-> SeedDate,
     source |-> source, description_raw |-> "", phone |-> phone, email |-> Null]

InitDb ==
    [schools |-> [a |-> NewRow("Krakow", "https://a/", "p0", "google-places"),
                  b |-> NewRow("Krakow", "https://b/", Null, "manual"),
                  c |-> NewRow("Warszawa", "", Null, "google-places")],
     schedule |-> [id \in Ids |-> <<>>],
     styles |-> << >>,
     school_styles |-> [id \in Ids |-> << >>]]

\* faulty variant: every source value is overwritten
UpgradeSource_Always(source) == "crawl4ai"

\* source = CASE WHEN source = 'google-places' THEN 'crawl4ai' ELSE source END
UpgradeSource(source) == IF source = "google-places" THEN "crawl4ai" ELSE source

\* faulty variant: the UPDATE leaves last_price_check alone
UpdatePricingRow_NoStamp(row, pricing) ==
    [row EXCEPT !.price = Get(pricing, "monthly_pass_pln"),
                !.trial_price = Get(pricing, "trial_price_pln"),
                !.single_class_price = Get(pricing, "single_class_pln"),
                !.pricing_notes = Get(pricing, "pricing_notes"),
                !.last_updated = TODAY,
                !.source = UpgradeSource(@)]

\* faulty variant: a null in the result keeps the stored value (COALESCE(?, price))
UpdatePricingRow_Backfill(row, pricing) ==
    LET Fill(new, old) == IF new = Null THEN old ELSE new
    IN  [row EXCEPT !.price = Fill(Get(pricing, "monthly_pass_pln"), @),
                    !.trial_price = Fill(Get(pricing, "trial_price_pln"), @),
                    !.single_class_price = Fill(Get(pricing, "single_class_pln"), @),
                    !.pricing_notes = Fill(Get(pricing, "pricing_notes"), @),
                    !.last_price_check = TODAY,
                    !.last_updated = TODAY,
                    !.source = UpgradeSource(@)]

\* the UPDATE of db_update_pricing on one row
UpdatePricingRow(row, pricing) ==
    [row EXCEPT !.price = Get(pricing, "monthly_pass_pln"),
                !.trial_price = Get(pricing, "trial_price_pln"),
                !.single_class_price = Get(pricing, "single_class_pln"),
                !.pricing_notes = Get(pricing, "pricing_notes"),
                !.last_price_check = TODAY,
                !.last_updated = TODAY,
                !.source = UpgradeSource(@)]

\* faulty variant: only the IS NOT NULL test, without the != '' test
KeepUnlessNonEmpty_NullOnly(new, old) == IF new # Null THEN new ELSE old

\* CASE WHEN ? != '' THEN ? ELSE old END: NULL != '' is NULL, which is not true
KeepUnlessNonEmpty(new, old) == IF new # Null /\ new # "" THEN new ELSE old

\* faulty variant: the about UPDATE stamps last_price_check as well
UpdateAboutRow_StampsPriceCheck(row, about) ==
    [row EXCEPT !.description_raw = KeepUnlessNonEmpty(GetD(about, "description_raw", ""), @),
                !.phone = KeepUnlessNonEmpty(Get(about, "phone"), @),
                !.email = KeepUnlessNonEmpty(Get(about, "email"), @),
                !.last_price_check = TODAY,
                !.last_updated = TODAY,
                !.source = UpgradeSource(@)]

\* the UPDATE of db_update_about on one row
UpdateAboutRow(row, about) ==
    [row EXCEPT !.description_raw = KeepUnlessNonEmpty(GetD(about, "description_raw", ""), @),
                !.phone = KeepUnlessNonEmpty(Get(about, "phone"), @),
                !.email = KeepUnlessNonEmpty(Get(about, "email"), @),
                !.last_updated = TODAY,
                !.source = UpgradeSource(@)]

\* the VALUES of one INSERT INTO schedule_entries
ScheduleRow(entry) ==
    [day |-> GetD(entry, "day", ""), time |-> GetD(entry, "time", ""),
     class_name |-> GetD(entry, "class_name", ""),
     instructor |-> Get(entry, "instructor"), level |-> Get(entry, "level")]

(***************************************************************************)
(* SQL statements as data, and their effect on the connection's view d of  *)
(* the store.                                                              *)
(***************************************************************************)
Range(f) == { f[k] : k \in DOMAIN f }

\* school_styles has a uniqueness key on (school_id, style_id): the constraint
\* that INSERT OR IGNORE relies on
SchoolStylesKey == TRUE

\* INSERT OR IGNORE INTO school_styles
InsertOrIgnore(rows, x) ==
    IF SchoolStylesKey /\ x \in Range(rows) THEN rows ELSE Append(rows, x)

\* SELECT id FROM styles WHERE name = ?, and INSERT INTO styles when no row
GetOrCreateStyle(rows, name) == IF name \in Range(rows) THEN rows ELSE Append(rows, name)

\* faulty variant: the DELETE removes nothing
DeleteSchedule_Noop(d, id) == d

\* faulty variant: the DELETE hits the record's row instead of its schedule
DeleteSchedule_Record(d, id) ==
    [d EXCEPT !.schools = [r \in (DOMAIN d.schools) \ {id} |-> d.schools[r]]]

\* faulty variant: the DELETE has no WHERE clause
DeleteSchedule_All(d, id) == [d EXCEPT !.schedule = [i \in DOMAIN d.schedule |-> << >>]]

\* DELETE FROM schedule_entries WHERE school_id = ?
DeleteSchedule(d, id) == [d EXCEPT !.schedule[id] = << >>]

ExecStmt(d, s) ==
    CASE s.op = "update_pricing" ->
           [d EXCEPT !.schools[s.id] = UpdatePricingRow(@, s.payload)]
      [] s.op = "update_about" ->
           [d EXCEPT !.schools[s.id] = UpdateAboutRow(@, s.payload)]
      [] s.op = "delete_schedule" ->
           DeleteSchedule(d, s.id)
      [] s.op = "insert_schedule" ->
           [d EXCEPT !.schedule[s.id] = Append(@, ScheduleRow(s.payload))]
      [] s.op = "get_or_create_style" ->
           [d EXCEPT !.styles = GetOrCreateStyle(@, s.payload)]
      [] s.op = "link_style" ->
           [d EXCEPT !.school_styles[s.id] = InsertOrIgnore(@, s.payload)]

Stmt(op, id, payload) == [op |-> op, id |-> id, payload |-> payload]
Commit == [op |-> "commit", id |-> Null, payload |-> Null]

\* a connection: its own view (with the open transaction's writes) and the
\* durable store; conn.commit() makes the view durable
Exec(c, s) ==
    IF s.op = "commit" THEN [c EXCEPT !.committed = c.db]
    ELSE [c EXCEPT !.db = ExecStmt(c.db, s)]

\* statements 1..n of stmts, in order
RECURSIVE ExecAll(_, _, _)
ExecAll(c, stmts, n) ==
    IF n = 0 THEN c ELSE Exec(ExecAll(c, stmts, n - 1), stmts[n])

\* failAt = 0: every statement runs; failAt = k > 0: statement k raises, after
\* statements 1..k-1 took effect
RunStmts(c, stmts, failAt) ==
    IF failAt = 0 THEN ExecAll(c, stmts, Len(stmts))
    ELSE ExecAll(c, stmts, failAt - 1)

RECURSIVE Concat(_)
Concat(ss) == IF ss = <<>> THEN <<>> ELSE Head(ss) \o Concat(Tail(ss))

DbUpdatePricing(school_id, pricing) ==
    << Stmt("update_pricing", school_id, pricing), Commit >>

\* faulty variant: the inserts without the DELETE
DbUpdateSchedule_NoDelete(school_id, classes) ==
    IF Len(classes) = 0 THEN <<>>
    ELSE [k \in 1..Len(classes) |-> Stmt("insert_schedule", school_id, classes[k])]
         \o << Commit >>

DbUpdateSchedule(school_id, classes) ==
    IF Len(classes) = 0 THEN <<>>
    ELSE << Stmt("delete_schedule", school_id, Null) >>
         \o [k \in 1..Len(classes) |-> Stmt("insert_schedule", school_id, classes[k])]
         \o << Commit >>

\* faulty variant: new tags are created but not linked to the record
StyleStmts_NoLink(school_id, styles, existing_styles) ==
    Concat([k \in 1..Len(styles) |->
              IF styles[k] \in existing_styles THEN <<>>
              ELSE << Stmt("get_or_create_style", school_id, styles[k]) >>])

\* existing_styles is read once, before the loop
StyleStmts(school_id, styles, existing_styles) ==
    Concat([k \in 1..Len(styles) |->
              IF styles[k] \in existing_styles THEN <<>>
              ELSE << Stmt("get_or_create_style", school_id, styles[k]),
                      Stmt("link_style", school_id, styles[k]) >>])

\* db_get_school_styles
DbGetSchoolStyles(d, school_id) == d.school_styles[school_id]

\* styles = about.get("styles", []); if styles: ...
DbUpdateAbout(d, school_id, about) ==
    LET styles == GetD(about, "styles", Some(<<>>))
    IN  << Stmt("update_about", school_id, about) >>
        \o (IF TruthyOpt(styles)
            THEN StyleStmts(school_id, styles[1], Range(DbGetSchoolStyles(d, school_id)))
            ELSE <<>>)
        \o << Commit >>

(***************************************************************************)
(* Fetching and extraction.  What the network returns is the environment's *)
(* choice: a page is "fail" (fetch_html returns None: transport error,     *)
(* non-2xx status or empty body), "short" (markup whose markdown is empty  *)
(* or under 50 characters) or "ok"; one request to the extraction          *)
(* capability ends in "error" (the client raises), "json_error" (malformed *)
(* output), "empty" (no content) or "data" (a JSON object).  Every request *)
(* made is logged as a call [cat, kind].  The payloads here are the JSON   *)
(* objects with plain values.                                              *)
(***************************************************************************)
Call(cat, kind) == [cat |-> cat, kind |-> kind]
Att(kind, data) == [kind |-> kind, data |-> data]
Res(data, calls) == [data |-> data, calls |-> calls]

MaxRetries == 2

\* faulty variant: a failed request is not retried
ExtractLoop_NoRetry(cat, attempts, k) ==
    IF attempts[k].kind = "data" THEN Res(Some(attempts[k].data), << Call(cat, "llm") >>)
    ELSE Res(None, << Call(cat, "llm") >>)

\* the retry loop of extract_with_llm from attempt k on; attempts[k] is what
\* request k returns
RECURSIVE ExtractLoop(_, _, _)
ExtractLoop(cat, attempts, k) ==
    IF k > MaxRetries + 1 THEN Res(None, <<>>)
    ELSE LET a == attempts[k]
             call == << Call(cat, "llm") >>
         IN  CASE a.kind = "data" -> Res(Some(a.data), call)
               [] a.kind = "empty" -> Res(None, call)
               [] OTHER ->
                    LET rest == ExtractLoop(cat, attempts, k + 1)
                    IN  Res(rest.data, call \o rest.calls)

\* faulty variant: the same wait before every retry
Backoff_Constant(attempt) == 1

\* time.sleep(2 ** attempt), attempt counted from 0
Backoff(attempt) == 2 ^ attempt

\* the waits of the retry loop from attempt k on (k counted from 1): a wait
\* follows every attempt that ended in an except clause, but the last one
RECURSIVE SleepLoop(_, _, _)
SleepLoop(api_key, attempts, k) ==
    IF k > MaxRetries + 1 THEN << >>
    ELSE IF api_key /\ attempts[k].kind \in { "data", "empty" } THEN << >>
    ELSE (IF k - 1 < MaxRetries THEN << Backoff(k - 1) >> ELSE << >>)
         \o SleepLoop(api_key, attempts, k + 1)

\* the waits of one call: none when there is no page text to send
Sleeps(api_key, page, attempts) ==
    IF page # "ok" THEN << >> ELSE SleepLoop(api_key, attempts, 1)

\* extract_with_llm(md, ...) if md else None.  Without OPENAI_API_KEY the client
\* constructor raises inside the try of every attempt: no request, no result.
ExtractWithLlm(cat, api_key, page, attempts) ==
    IF page # "ok" THEN Res(None, <<>>)
    ELSE IF ~api_key THEN Res(None, <<>>)
    ELSE ExtractLoop(cat, attempts, 1)

\* the "did we get a price" test of scrape_school and extract_pricing_from_images
AnyPrice(d) ==
    \/ Truthy(Get(d, "monthly_pass_pln"))
    \/ Truthy(Get(d, "single_class_pln"))
    \/ Truthy(Get(d, "trial_price_pln"))

\* pricing and (...)
HasPrices(pricing) == pricing # None /\ DOMAIN pricing[1] # {} /\ AnyPrice(pricing[1])

\* extract_pricing_from_images from candidate k on; imgs[k] = [dl, resp]: the
\* download ("fail", "notimg" or "ok") and the vision request's answer
RECURSIVE VisionLoop(_, _, _)
VisionLoop(api_key, imgs, k) ==
    IF k > Len(imgs) THEN Res(None, <<>>)
    ELSE LET im == imgs[k]
             dl == << Call("pricing", "image") >>
             rest == VisionLoop(api_key, imgs, k + 1)
         IN  IF im.dl # "ok" \/ ~api_key
             THEN Res(rest.data, dl \o rest.calls)
             ELSE LET calls == dl \o << Call("pricing", "vision") >>
                  IN  IF im.resp.kind = "data" /\ AnyPrice(im.resp.data)
                      THEN Res(Some(im.resp.data), calls)
                      ELSE Res(rest.data, calls \o rest.calls)

ExtractPricingFromImages(api_key, imgs) ==
    IF imgs = <<>> THEN Res(None, <<>>) ELSE VisionLoop(api_key, imgs, 1)

\* the "attempted, nothing found" payload
Marker ==
    [monthly_pass_pln |-> Null, trial_price_pln |-> Null, single_class_pln |-> Null,
     pricing_notes |-> "Nie udalo sie pobrac informacji o cenach."]

(***************************************************************************)
(* The planner of scrape_school.                                           *)
(***************************************************************************)
\* faulty variant: "already has a price" instead of "already attempted"
NeedsPricing_ByPrice(force, db_school) == force \/ db_school.price = Null

\* faulty variant: only force plans pricing
NeedsPricing_ForceOnly(force, db_school) == force

\* faulty variant: force plans the schedule even in a prices-only run
NeedsSchedule_ForceFirst(prices_only, force, has_schedule) ==
    force \/ (~prices_only /\ ~has_schedule)

\* faulty variant: force plans the about page even in a prices-only run
NeedsAbout_ForceFirst(prices_only, force, db_school) ==
    force \/ (~prices_only /\ db_school.description_raw \in {Null, ""})

NeedsPricing(force, db_school) == force \/ db_school.last_price_check = Null
NeedsSchedule(prices_only, force, has_schedule) == ~prices_only /\ (force \/ ~has_schedule)
NeedsAbout(prices_only, force, db_school) ==
    ~prices_only /\ (force \/ db_school.description_raw \in {Null, ""})

\* _has_schedule_in_db
HasScheduleInDb(d, school_id) == Len(d.schedule[school_id]) > 0

(***************************************************************************)
(* The pricing cascade of scrape_school (the body of "if needs_pricing").  *)
(* o is what the network returns: o.p_page, o.p_text (the attempts of the  *)
(* text extraction), o.p_imgs (the candidate images extract_image_urls     *)
(* finds in the page, at most 3), o.h_page, o.h_text (the homepage).       *)
(***************************************************************************)
PricingCascade(seed, api_key, o) ==
    LET fetch1 == << Call("pricing", "fetch") >>
        html == o.p_page # "fail"
        t1 == ExtractWithLlm("pricing", api_key, o.p_page, o.p_text)
        try_vision == ~HasPrices(t1.data) /\ html /\ o.p_imgs # <<>>
        v == IF try_vision THEN ExtractPricingFromImages(api_key, o.p_imgs)
             ELSE Res(None, <<>>)
        p2 == IF v.data # None /\ DOMAIN v.data[1] # {} THEN v.data ELSE t1.data
        try_home == ~HasPrices(p2) /\ Truthy(seed.pricing_url) /\ Truthy(seed.website)
        h == IF try_home /\ o.h_page # "fail"
             THEN ExtractWithLlm("pricing", api_key, o.h_page, o.h_text)
             ELSE Res(None, <<>>)
        hcalls == IF try_home THEN << Call("pricing", "fetch_home") >> \o h.calls ELSE <<>>
        p3 == IF HasPrices(h.data) THEN h.data ELSE p2
    IN  Res(IF p3 = None THEN Some(Marker) ELSE p3,
            fetch1 \o t1.calls \o v.calls \o hcalls)

\* the body of "if needs_schedule": [raised, data, calls]; len(classes) raises
\* when the extraction returned "classes": null
ScheduleCascade(api_key, o) ==
    LET fetch == << Call("schedule", "fetch") >>
        r == ExtractWithLlm("schedule", api_key, o.s_page, o.s_data)
        classes == IF r.data = None THEN Some(<<>>)
                   ELSE GetD(r.data[1], "classes", Some(<<>>))
    IN  [raised |-> classes = None, data |-> classes, calls |-> fetch \o r.calls]

\* the body of "if needs_about"
AboutCascade(api_key, o) ==
    LET r == ExtractWithLlm("about", api_key, o.a_page, o.a_data)
    IN  Res(r.data, << Call("about", "fetch") >> \o r.calls)

\* scrape_school: [raised, updates, calls]
ScrapeSchool(seed, db_school, has_schedule, prices_only, force, api_key, o) ==
    LET p == IF NeedsPricing(force, db_school) THEN PricingCascade(seed, api_key, o)
             ELSE Res(None, <<>>)
        s == IF NeedsSchedule(prices_only, force, has_schedule) THEN ScheduleCascade(api_key, o)
             ELSE [raised |-> FALSE, data |-> None, calls |-> <<>>]
        a == IF NeedsAbout(prices_only, force, db_school) /\ ~s.raised
             THEN AboutCascade(api_key, o)
             ELSE Res(None, <<>>)
    IN  [raised |-> s.raised,
         updates |-> [id |-> seed.id, pricing |-> p.data, schedule |-> s.data, about |-> a.data],
         calls |-> p.calls \o s.calls \o a.calls]

(***************************************************************************)
(* _save_school_updates: the three merges in one try block.  The           *)
(* statements of the merges that run, in order; an exception at statement  *)
(* failAt leaves the try block, and nothing is rolled back.                *)
(***************************************************************************)
PricingStmts(updates) ==
    IF TruthyOpt(updates.pricing) THEN DbUpdatePricing(updates.id, updates.pricing[1])
    ELSE <<>>

ScheduleStmts(updates) ==
    IF TruthyOpt(updates.schedule) THEN DbUpdateSchedule(updates.id, updates.schedule[1])
    ELSE <<>>

AboutStmts(d, updates) ==
    IF TruthyOpt(updates.about) THEN DbUpdateAbout(d, updates.id, updates.about[1])
    ELSE <<>>

SaveStmts(d, updates) ==
    PricingStmts(updates) \o ScheduleStmts(updates) \o AboutStmts(d, updates)

\* the category whose merge raises at statement failAt ("none" for failAt = 0)
FailedCat(d, updates, failAt) ==
    LET np == Len(PricingStmts(updates))
        ns == Len(ScheduleStmts(updates))
    IN  IF failAt = 0 THEN "none"
        ELSE IF failAt <= np THEN "pricing"
        ELSE IF failAt <= np + ns THEN "schedule"
        ELSE "about"

\* the return value: saved is set after each merge that returned
Saved(d, updates, failAt) ==
    LET cat == FailedCat(d, updates, failAt)
    IN  \/ TruthyOpt(updates.pricing) /\ cat # "pricing"
        \/ TruthyOpt(updates.schedule) /\ cat \notin {"pricing", "schedule"}
        \/ TruthyOpt(updates.about) /\ cat = "none"

\* [conn, saved]
SaveSchoolUpdates(c, updates, failAt) ==
    [conn |-> RunStmts(c, SaveStmts(c.db, updates), failAt),
     saved |-> Saved(c.db, updates, failAt)]

(***************************************************************************)
(* main: the selection of the schools to scrape.                           *)
(***************************************************************************)
\* LOWER(...) / str.lower() on the city names in use
Lower(s) ==
    CASE s \in {"Krakow", "KRAKOW"} -> "krakow"
      [] s = "Warszawa" -> "warszawa"
      [] OTHER -> s

School(d, id) == [id |-> id, row |-> d.schools[id]]

\* db_get_schools_needing_enrichment(conn, city)
DbGetSchoolsNeedingEnrichment(d, city) ==
    LET Needs(id) ==
            /\ \/ d.schools[id].last_price_check = Null
               \/ d.schools[id].description_raw \in {Null, ""}
            /\ city # Null => Lower(d.schools[id].city) = Lower(city)
        ids == SelectSeq(Order, Needs)
    IN  [k \in 1..Len(ids) |-> School(d, ids[k])]

\* faulty variant: --limit is not applied
Limit_Off(schools, limit) == schools

\* schools_to_scrape[: limit]
Limit(schools, limit) ==
    IF limit > 0 /\ limit < Len(schools) THEN SubSeq(schools, 1, limit) ELSE schools

\* lines 716-736 for a school id that exists or no --school
SchoolsToScrape(d, args) ==
    LET all == [k \in 1..Len(Order) |-> School(d, Order[k])]
        InCity(s) == Lower(s.row.city) = Lower(args.city)
        picked == IF args.school # Null THEN << School(d, args.school) >>
                  ELSE IF args.force THEN all
                  ELSE DbGetSchoolsNeedingEnrichment(d, args.city)
        in_city == IF args.city # Null /\ args.school = Null THEN SelectSeq(picked, InCity)
                   ELSE picked
    IN  Limit(in_city, args.limit)

\* seeds_by_id.get(school["id"]), or the seed built from the row
SeedOf(school) ==
    IF school.id \in DOMAIN SeedsYaml THEN SeedsYaml[school.id]
    ELSE [id |-> school.id, website |-> school.row.website_url,
          pricing_url |-> "", schedule_url |-> ""]

(***************************************************************************)
(* The batch process.                                                      *)
(***************************************************************************)
VARIABLES
    db,         \* the store as the open connection sees it
    committed,  \* the durable store
    pc,         \* "idle" (no process), "loop" (top of the for loop), "save"
    args,       \* the command line of the running process
    env,        \* its environment: [seeds_file, api_key]
    queue,      \* the schools of schools_to_scrape not yet reached
    total,      \* len(schools_to_scrape)
    applied,    \* applied
    updates,    \* the result of scrape_school, before it is saved or logged
    calls,      \* the requests scrape_school made for that result
    saveErr,    \* the category whose merge raised in the last save
    exit,       \* how the last process ended
    prior,      \* the store before the merge under test (merge-level runs)
    inp,        \* the arguments of the function under test (function-level runs)
    out,        \* what it returned
    tasks,      \* the coroutines of the concurrent function under test
    sem         \* the free permits of its semaphore

vars == << db, committed, pc, args, env, queue, total, applied, updates, calls, saveErr, exit,
          prior, inp, out, tasks, sem >>

NoArgs == [school |-> Null, city |-> Null, prices_only |-> FALSE, force |-> FALSE,
           dry_run |-> FALSE, limit |-> 0]
NoEnv == [seeds_file |-> TRUE, api_key |-> TRUE]
NoUpdates == [id |-> Null, pricing |-> None, schedule |-> None, about |-> None]
NoInp == [fn |-> Null]
NoOut == [data |-> None, calls |-> << >>]

\* ---- what the sites and the extraction capability may return ----
Data(d) == << Att("data", d), Att("data", d), Att("data", d) >>
Failing == << Att("error", EmptyObj), Att("json_error", EmptyObj), Att("error", EmptyObj) >>

Priced == [monthly_pass_pln |-> "150", trial_price_pln |-> "0", single_class_pln |-> Null,
           pricing_notes |-> Null]
E1 == [day |-> "Poniedzialek", time |-> "07:00-08:30", class_name |-> "Mysore"]
E2 == [day |-> "Wtorek", time |-> "18:00-19:30", class_name |-> "Hatha",
       instructor |-> "Anna", level |-> Null]
AboutFull == [styles |-> Some(<< "Hatha" >>), description_raw |-> "X", phone |-> "p1",
              email |-> "e1"]
AboutBlank == [description_raw |-> "", phone |-> Null]

Outcome(pp, pt, pi, hp, ht, sp, sd, ap, ad) ==
    [p_page |-> pp, p_text |-> pt, p_imgs |-> pi, h_page |-> hp, h_text |-> ht,
     s_page |-> sp, s_data |-> sd, a_page |-> ap, a_data |-> ad]

PricingPages == { << "fail", Failing >>, << "ok", Failing >>, << "ok", Data(EmptyObj) >>,
                  << "ok", Data(Priced) >> }
HomePages(id) == IF id = "b" THEN { << "fail", Failing >>, << "ok", Data(Priced) >> }
                 ELSE { << "fail", Failing >> }
ResultClassLists == { << E1 >>, << E2, E1 >> }
SchedulePages(id) ==
    IF id = "a"
    THEN { << "fail", Failing >>, << "ok", Data([classes |-> None]) >> }
         \cup { << "ok", Data([classes |-> Some(cl)]) >> : cl \in ResultClassLists }
    ELSE { << "fail", Failing >> }
AboutPages(id) ==
    IF id = "a"
    THEN { << "fail", Failing >>, << "ok", Data(AboutFull) >>, << "ok", Data(AboutBlank) >> }
    ELSE { << "fail", Failing >> }

\* the command lines and environments of the batch runs
Flags == [prices_only : BOOLEAN, force : BOOLEAN, dry_run : BOOLEAN]
Scopes == { [school |-> Null, city |-> Null, limit |-> 0],
            [school |-> Null, city |-> Null, limit |-> 1],
            [school |-> "b", city |-> Null, limit |-> 0],
            [school |-> Null, city |-> "KRAKOW", limit |-> 0] }
RunArgs ==
    { [school |-> sc.school, city |-> sc.city, limit |-> sc.limit,
       prices_only |-> f.prices_only, force |-> f.force, dry_run |-> f.dry_run] :
      sc \in Scopes, f \in Flags }
    \cup { [NoArgs EXCEPT !.school = "zz"] }
RunEnvs == [seeds_file : BOOLEAN, api_key : BOOLEAN]

Init ==
    /\ db = InitDb
    /\ committed = InitDb
    /\ pc = "idle"
    /\ args = NoArgs
    /\ env = NoEnv
    /\ queue = << >>
    /\ total = 0
    /\ applied = 0
    /\ updates = NoUpdates
    /\ calls = << >>
    /\ saveErr = "none"
    /\ exit = "none"
    /\ prior = InitDb
    /\ inp = NoInp
    /\ out = NoOut
    /\ tasks = << >>
    /\ sem = 0

\* how the process ends between its start and the for loop: "fatal" (open() of the
\* seed file raises), "not_found" (sys.exit(1)), "empty" (nothing to scrape), or
\* "run" when the loop is entered
Startup(d, a, e) ==
    IF ~e.seeds_file THEN "fatal"
    ELSE IF a.school # Null /\ a.school \notin Ids THEN "not_found"
    ELSE IF SchoolsToScrape(d, a) = << >> THEN "empty"
    ELSE "run"

\* a process starts: main up to the for loop
StartRun(a, e) ==
    /\ pc = "idle"
    /\ LET how == Startup(committed, a, e)
       IN  /\ pc' = IF how = "run" THEN "loop" ELSE "idle"
           /\ exit' = IF how = "run" THEN "none" ELSE how
           /\ queue' = IF how = "run" THEN SchoolsToScrape(committed, a) ELSE << >>
           /\ total' = IF how = "run" THEN Len(SchoolsToScrape(committed, a)) ELSE 0
    /\ args' = IF Startup(committed, a, e) = "run" THEN a ELSE NoArgs
    /\ env' = e
    /\ applied' = 0
    /\ db' = committed
    /\ updates' = NoUpdates
    /\ calls' = << >>
    /\ saveErr' = "none"
    /\ UNCHANGED << committed, prior, inp, out, tasks, sem >>

\* faulty variant: no except clause around scrape_school
OnScrapeError_Uncaught == "abort"

\* what main does with an exception of scrape_school
OnScrapeError == "continue"
\* what _save_school_updates does with an exception of a merge
OnSaveError == "caught"

\* one pass of the loop body up to the result of scrape_school
Scrape ==
    /\ pc = "loop"
    /\ queue # << >>
    /\ LET school == Head(queue)
           seed == SeedOf(school)
           id == school.id
       IN  IF ~Truthy(seed.website)
           THEN /\ queue' = Tail(queue)
                /\ UNCHANGED << pc, updates, calls, exit, db >>
           ELSE \E pp \in PricingPages, hp \in HomePages(id), sp \in SchedulePages(id),
                   ap \in AboutPages(id) :
                  LET o == Outcome(pp[1], pp[2], << >>, hp[1], hp[2], sp[1], sp[2],
                                   ap[1], ap[2])
                      r == ScrapeSchool(seed, school.row, HasScheduleInDb(db, id),
                                        args.prices_only, args.force, env.api_key, o)
                  IN  IF r.raised
                      THEN IF OnScrapeError = "continue"
                           THEN /\ queue' = Tail(queue)
                                /\ UNCHANGED << pc, updates, calls, exit, db >>
                           ELSE /\ pc' = "idle"
                                /\ exit' = "fatal"
                                /\ db' = committed
                                /\ UNCHANGED << queue, updates, calls >>
                      ELSE /\ pc' = "save"
                           /\ updates' = r.updates
                           /\ calls' = r.calls
                           /\ UNCHANGED << queue, exit, db >>
    /\ saveErr' = "none"
    /\ UNCHANGED << committed, args, env, total, applied, prior, inp, out, tasks, sem >>

\* faulty variant: the dry-run flag is not consulted
DryRun_Ignored(a) == FALSE

\* if args.dry_run: log only
DryRun(a) == a.dry_run

\* the rest of the loop body: the dry-run log, or _save_school_updates
Save ==
    /\ pc = "save"
    /\ IF DryRun(args)
       THEN /\ UNCHANGED << db, committed, applied >> /\ pc' = "loop"
            /\ saveErr' = "none" /\ exit' = exit
       ELSE \E failAt \in 0..Len(SaveStmts(db, updates)) :
               LET r == SaveSchoolUpdates([db |-> db, committed |-> committed], updates, failAt)
                   cat == FailedCat(db, updates, failAt)
               IN  /\ saveErr' = cat
                   /\ committed' = r.conn.committed
                   /\ IF cat = "none" \/ OnSaveError = "caught"
                      THEN /\ db' = r.conn.db
                           /\ applied' = IF r.saved THEN applied + 1 ELSE applied
                           /\ pc' = "loop"
                           /\ exit' = exit
                      ELSE /\ db' = r.conn.committed
                           /\ applied' = applied
                           /\ pc' = "idle"
                           /\ exit' = "fatal"
    /\ queue' = Tail(queue)
    /\ updates' = NoUpdates
    /\ calls' = << >>
    /\ UNCHANGED << args, env, total, prior, inp, out, tasks, sem >>

\* faulty variant: closing the connection commits the open transaction
CloseConn_Commits(c) == c.db

\* conn.close(): what is left of the store; an open transaction is dropped
CloseConn(c) == c.committed

\* KeyboardInterrupt inside scrape_school: break, then the cleanup
Interrupt ==
    /\ pc = "loop"
    /\ queue # << >>
    /\ pc' = "idle"
    /\ exit' = "interrupted"
    /\ db' = CloseConn([db |-> db, committed |-> committed])
    /\ committed' = CloseConn([db |-> db, committed |-> committed])
    /\ args' = NoArgs
    /\ queue' = << >>
    /\ UNCHANGED << env, total, applied, updates, calls, saveErr, prior, inp, out, tasks, sem >>

\* KeyboardInterrupt after scrape_school returned, in the dry-run log or in
\* _save_school_updates before statement k: no handler catches it (except
\* Exception does not), the process ends and its open transaction is lost
InterruptSave ==
    /\ pc = "save"
    /\ LET stmts == IF DryRun(args) THEN << >> ELSE SaveStmts(db, updates)
       IN  \E k \in 1..(Len(stmts) + 1) :
              LET c == ExecAll([db |-> db, committed |-> committed], stmts, k - 1)
              IN  /\ committed' = c.committed
                  /\ db' = c.committed
    /\ pc' = "idle"
    /\ exit' = "killed"
    /\ args' = NoArgs
    /\ queue' = << >>
    /\ updates' = NoUpdates
    /\ calls' = << >>
    /\ UNCHANGED << env, total, applied, saveErr, prior, inp, out, tasks, sem >>

\* the loop is over: cleanup and conn.close(), which drops an open transaction
Finish ==
    /\ pc = "loop"
    /\ queue = << >>
    /\ pc' = "idle"
    /\ exit' = "ok"
    /\ db' = CloseConn([db |-> db, committed |-> committed])
    /\ committed' = CloseConn([db |-> db, committed |-> committed])
    /\ args' = NoArgs
    /\ UNCHANGED << env, queue, total, applied, updates, calls, saveErr, prior, inp, out, tasks, sem >>

Next ==
    \/ \E a \in RunArgs, e \in RunEnvs : StartRun(a, e)
    \/ Scrape
    \/ Save
    \/ Interrupt
    \/ InterruptSave
    \/ Finish

Spec == Init /\ [][Next]_vars

(***************************************************************************)
(* The merges on their own: one of db_update_pricing, db_update_schedule   *)
(* and db_update_about is called once on a store that earlier merges left  *)
(* behind, with a payload from a bounded set; a statement may raise.       *)
(***************************************************************************)
MaxClasses == 2

SeqsUpTo(S, n) == UNION { [1..k -> S] : k \in 0..n }

P100 == [monthly_pass_pln |-> "100", trial_price_pln |-> Null, single_class_pln |-> Null,
         pricing_notes |-> "Studenci: -20%"]
PPartial == [monthly_pass_pln |-> Null, single_class_pln |-> "20"]
AboutNulls == [description_raw |-> Null, phone |-> "", email |-> Null, styles |-> None]
AboutY == [description_raw |-> "Y", styles |-> Some(<< "Hatha", "Yin", "Hatha" >>)]

PricingPayloads == { EmptyObj, Marker, Priced, P100, PPartial }
AboutPayloads == { AboutFull, AboutBlank, AboutNulls, AboutY }
ClassLists == SeqsUpTo({ E1, E2 }, MaxClasses)
MergeIds == { "a", "b" }

Conn(d) == [db |-> d, committed |-> d]

\* the stores earlier merges on record "a" leave behind
PriorStores ==
    { ExecAll(Conn(InitDb),
              (IF p = None THEN << >> ELSE DbUpdatePricing("a", p[1]))
              \o DbUpdateSchedule("a", cl)
              \o (IF ab = None THEN << >> ELSE DbUpdateAbout(InitDb, "a", ab[1])),
              Len((IF p = None THEN << >> ELSE DbUpdatePricing("a", p[1]))
                  \o DbUpdateSchedule("a", cl)
                  \o (IF ab = None THEN << >> ELSE DbUpdateAbout(InitDb, "a", ab[1])))).db :
      p \in { None } \cup { Some(x) : x \in { Marker, P100 } },
      cl \in ClassLists,
      ab \in { None } \cup { Some(x) : x \in { AboutFull } } }

InitMerge ==
    /\ prior \in PriorStores
    /\ db = prior
    /\ committed = prior
    /\ inp = NoInp
    /\ out = NoOut
    /\ tasks = << >>
    /\ sem = 0
    /\ pc = "ready"
    /\ args = NoArgs
    /\ env = NoEnv
    /\ queue = << >>
    /\ total = 0
    /\ applied = 0
    /\ updates = NoUpdates
    /\ calls = << >>
    /\ saveErr = "none"
    /\ exit = "none"

\* the statements stmts of one merge of category cat run on the connection
Merge(cat, u, stmts) ==
    /\ \E failAt \in 0..Len(stmts) :
          LET c == RunStmts([db |-> db, committed |-> committed], stmts, failAt)
          IN  /\ db' = c.db
              /\ committed' = c.committed
              /\ saveErr' = IF failAt = 0 THEN "none" ELSE cat
    /\ pc' = "merged"
    /\ updates' = u
    /\ UNCHANGED << args, env, queue, total, applied, calls, exit, prior, inp, out, tasks, sem >>

MergePricing(id, p) ==
    /\ pc = "ready"
    /\ Merge("pricing", [NoUpdates EXCEPT !.id = id, !.pricing = Some(p)],
             DbUpdatePricing(id, p))

MergeSchedule(id, cl) ==
    /\ pc = "ready"
    /\ Merge("schedule", [NoUpdates EXCEPT !.id = id, !.schedule = Some(cl)],
             DbUpdateSchedule(id, cl))

MergeAbout(id, ab) ==
    /\ pc = "ready"
    /\ Merge("about", [NoUpdates EXCEPT !.id = id, !.about = Some(ab)],
             DbUpdateAbout(db, id, ab))

\* the merge that just returned is called once more with the same result
Remerge ==
    /\ pc = "merged"
    /\ saveErr = "none"
    /\ LET id == updates.id
           stmts == IF updates.pricing # None THEN DbUpdatePricing(id, updates.pricing[1])
                    ELSE IF updates.schedule # None
                    THEN DbUpdateSchedule(id, updates.schedule[1])
                    ELSE DbUpdateAbout(db, id, updates.about[1])
           c == ExecAll([db |-> db, committed |-> committed], stmts, Len(stmts))
       IN  /\ db' = c.db
           /\ committed' = c.committed
    /\ pc' = "remerged"
    /\ UNCHANGED << args, env, queue, total, applied, updates, calls, saveErr, exit, prior,
                    inp, out, tasks, sem >>

NextMerge ==
    \/ \E id \in MergeIds, p \in PricingPayloads : MergePricing(id, p)
    \/ \E id \in MergeIds, cl \in ClassLists : MergeSchedule(id, cl)
    \/ \E id \in MergeIds, ab \in AboutPayloads : MergeAbout(id, ab)
    \/ Remerge

SpecMerge == InitMerge /\ [][NextMerge]_vars

(***************************************************************************)
(* extract_with_llm on its own: one call, with an answer prepared for each *)
(* request it could make and for more requests than it may make.           *)
(***************************************************************************)
MaxAttempts == 4

TrialFree == [trial_price_pln |-> "0", pricing_notes |-> "Pierwsze zajecia gratis"]
Answers == { Att("error", EmptyObj), Att("json_error", EmptyObj), Att("empty", EmptyObj),
             Att("data", EmptyObj), Att("data", Priced) }
Pages == { "fail", "short", "ok" }

ExtractInputs ==
    [fn : { "extract_with_llm" }, page : Pages, api_key : BOOLEAN,
     attempts : [1..MaxAttempts -> Answers]]

\* everything but inp, out and pc, which the function-level runs never use
IdleProcess ==
    /\ db = InitDb
    /\ committed = InitDb
    /\ prior = InitDb
    /\ args = NoArgs
    /\ env = NoEnv
    /\ queue = << >>
    /\ total = 0
    /\ applied = 0
    /\ updates = NoUpdates
    /\ calls = << >>
    /\ saveErr = "none"
    /\ exit = "none"
    /\ tasks = << >>
    /\ sem = 0

InitExtract ==
    /\ inp \in ExtractInputs
    /\ out = NoOut
    /\ pc = "ready"
    /\ IdleProcess

CallExtract ==
    /\ pc = "ready"
    /\ LET r == ExtractWithLlm("pricing", inp.api_key, inp.page, inp.attempts)
       IN  out' = [data |-> r.data, calls |-> r.calls,
                   sleeps |-> Sleeps(inp.api_key, inp.page, inp.attempts)]
    /\ pc' = "done"
    /\ UNCHANGED << db, committed, args, env, queue, total, applied, updates, calls,
                    saveErr, exit, prior, inp, tasks, sem >>

SpecExtract == InitExtract /\ [][CallExtract]_vars

(***************************************************************************)
(* The pricing cascade on its own: one run of the body of "if              *)
(* needs_pricing", for a seed with no pricing hint, with a hint of its own *)
(* and with a hint equal to the website, and with candidate images.        *)
(***************************************************************************)
MaxImgs == 2

SameUrlSeed == [id |-> "d", website |-> "https://d/", pricing_url |-> "https://d/",
                schedule_url |-> ""]
CascadeSeeds == { SeedsYaml["a"], SeedsYaml["b"], SameUrlSeed }

Single30 == [single_class_pln |-> "30"]
Img(dl, resp) == [dl |-> dl, resp |-> resp]
ImgOutcomes == { Img("fail", Att("error", EmptyObj)), Img("notimg", Att("error", EmptyObj)),
                 Img("ok", Att("error", EmptyObj)), Img("ok", Att("data", EmptyObj)),
                 Img("ok", Att("data", Single30)) }
TextOutcomes == { Failing, Data(EmptyObj), Data(Priced), Data(TrialFree) }
HomeOutcomes == { << "fail", Failing >>, << "ok", Failing >>, << "ok", Data(Priced) >> }

CascadeInputs ==
    { [fn |-> "pricing_cascade", seed |-> seed, api_key |-> k,
       o |-> Outcome(pp, pt, pi, hp[1], hp[2], "fail", Failing, "fail", Failing)] :
      seed \in CascadeSeeds, k \in BOOLEAN, pp \in Pages, pt \in TextOutcomes,
      pi \in SeqsUpTo(ImgOutcomes, MaxImgs), hp \in HomeOutcomes }

InitCascade ==
    /\ inp \in CascadeInputs
    /\ out = NoOut
    /\ pc = "ready"
    /\ IdleProcess

RunPricingCascade ==
    /\ pc = "ready"
    /\ out' = PricingCascade(inp.seed, inp.api_key, inp.o)
    /\ pc' = "done"
    /\ UNCHANGED << db, committed, args, env, queue, total, applied, updates, calls,
                    saveErr, exit, prior, inp, tasks, sem >>

SpecCascade == InitCascade /\ [][RunPricingCascade]_vars

(***************************************************************************)
(* probe_all_schools on its own: one coroutine _probe per school, all      *)
(* created at once, each waiting for a permit of the semaphore, probing,   *)
(* and handing its result to the as_completed loop, which appends it.      *)
(* discovered is {} or a dict with a URL; schools are named by position.   *)
(***************************************************************************)
MaxSchools == 3
DefaultConcurrency == 20

Concurrencies == { 1, 2, DefaultConcurrency }
Discoveries == { EmptyObj, [pricing_url |-> "https://x/cennik"] }

ProbeInputs ==
    { [fn |-> "probe_all_schools", schools |-> n, concurrency |-> c] :
      n \in 0..MaxSchools, c \in Concurrencies }

InitProbe ==
    /\ inp \in ProbeInputs
    /\ out = NoOut
    /\ tasks = [i \in 1..inp.schools |-> [at |-> "waiting", discovered |-> EmptyObj]]
    /\ sem = inp.concurrency
    /\ pc = "probing"
    /\ db = InitDb
    /\ committed = InitDb
    /\ prior = InitDb
    /\ args = NoArgs
    /\ env = NoEnv
    /\ queue = << >>
    /\ total = 0
    /\ applied = 0
    /\ updates = NoUpdates
    /\ calls = << >>
    /\ saveErr = "none"
    /\ exit = "none"

ProbeFrame ==
    UNCHANGED << db, committed, args, env, queue, total, applied, updates, calls, saveErr,
                 exit, prior, inp >>

\* faulty variant: the semaphore never blocks
CanAcquire_Always(permits) == TRUE

\* asyncio.Semaphore: acquire returns only while a permit is free
CanAcquire(permits) == permits > 0

\* async with sem: coroutine i gets a permit and starts probe_school
Acquire(i) ==
    /\ pc = "probing"
    /\ tasks[i].at = "waiting"
    /\ CanAcquire(sem)
    /\ sem' = sem - 1
    /\ tasks' = [tasks EXCEPT ![i].at = "in_flight"]
    /\ UNCHANGED << pc, out >>
    /\ ProbeFrame

\* probe_school returns (it catches every probe error), the permit is released
\* and the coroutine completes with (school, discovered)
ProbeReturns(i, discovered) ==
    /\ pc = "probing"
    /\ tasks[i].at = "in_flight"
    /\ sem' = sem + 1
    /\ tasks' = [tasks EXCEPT ![i] = [at |-> "completed", discovered |-> discovered]]
    /\ UNCHANGED << pc, out >>
    /\ ProbeFrame

\* the as_completed loop takes a completed coroutine and appends its result
Collect(i) ==
    /\ pc = "probing"
    /\ tasks[i].at = "completed"
    /\ out' = [out EXCEPT !.calls = Append(@, [school |-> i,
                                                discovered |-> tasks[i].discovered])]
    /\ tasks' = [tasks EXCEPT ![i].at = "collected"]
    /\ UNCHANGED << pc, sem >>
    /\ ProbeFrame

\* as_completed is exhausted: return results
ProbeAllReturns ==
    /\ pc = "probing"
    /\ \A i \in DOMAIN tasks : tasks[i].at = "collected"
    /\ pc' = "returned"
    /\ out' = [out EXCEPT !.data = Some(out.calls)]
    /\ UNCHANGED << tasks, sem >>
    /\ ProbeFrame

NextProbe ==
    \/ \E i \in DOMAIN tasks : Acquire(i)
    \/ \E i \in DOMAIN tasks, d \in Discoveries : ProbeReturns(i, d)
    \/ \E i \in DOMAIN tasks : Collect(i)
    \/ ProbeAllReturns

SpecProbe == InitProbe /\ [][NextProbe]_vars

(***************************************************************************)
(* What the two extractors do with the JSON object the model answered.     *)
(* Here a JSON value carries its type: a plain value (number, string,      *)
(* null), a list, or a dict from keys to JSON values.  The payloads of the *)
(* other specifications hold plain values and lists only, which both       *)
(* extractors return as they are.                                          *)
(***************************************************************************)
Plain(v) == [t |-> "plain", v |-> v]
List(items) == [t |-> "list", v |-> items]
Dict(fields) == [t |-> "dict", v |-> fields]

\* bool(value) of Python
PyTruthy(j) ==
    CASE j.t = "plain" -> Truthy(j.v)
      [] j.t = "list" -> Len(j.v) > 0
      [] j.t = "dict" -> DOMAIN j.v # {}

\* if "properties" in data and isinstance(data["properties"], dict)
UnwrapProperties(data) ==
    IF "properties" \in DOMAIN data /\ data["properties"].t = "dict"
    THEN data["properties"].v ELSE data

\* one round of the loop over data.items() of extract_with_llm
UnwrapField(val) ==
    IF val.t # "dict" THEN val
    ELSE IF "items" \in DOMAIN val.v /\ val.v["items"].t = "list" THEN val.v["items"]
    ELSE IF "default" \in DOMAIN val.v /\ Cardinality(DOMAIN val.v) <= 3 THEN val.v["default"]
    ELSE val

\* extract_with_llm from json.loads(text) to return data
ParseText(data) ==
    LET props == UnwrapProperties(data)
    IN  Some([k \in DOMAIN props |-> UnwrapField(props[k])])

\* extract_pricing_from_images from json.loads(text) on, for the last image
ParseVision(data) ==
    LET props == UnwrapProperties(data)
        price(f) == f \in DOMAIN props /\ PyTruthy(props[f])
    IN  IF price("monthly_pass_pln") \/ price("single_class_pln") \/ price("trial_price_pln")
        THEN Some(props) ELSE None

ItemsWrapper == Dict([items |-> List(<< "Hatha" >>), type |-> Plain("array")])
DefaultWrapper == Dict([default |-> Plain("30"), type |-> Plain("number")])
TitledWrapper == Dict([default |-> Plain("30"), type |-> Plain("number"),
                       title |-> Plain("Single Class Pln")])
SchemaEcho == Dict([anyOf |-> List(<< "number", "null" >>), default |-> Plain("30"),
                    description |-> Plain("Price for a single drop-in class"),
                    title |-> Plain("Single Class Pln")])
FieldValues == << Plain("30"), Plain("0"), Plain(Null), List(<< "Hatha" >>), ItemsWrapper,
                  DefaultWrapper, TitledWrapper, SchemaEcho >>

\* the answers are named by the position in FieldValues of each field's value
\* and by whether the object sits under a top-level "properties"
UnwrapInputs ==
    [fn : { "extract_with_llm", "extract_pricing_from_images" }, properties : BOOLEAN,
     single_class_pln : DOMAIN FieldValues, pricing_notes : DOMAIN FieldValues]

JsonAnswer(i) ==
    LET obj == [single_class_pln |-> FieldValues[i.single_class_pln],
                pricing_notes |-> FieldValues[i.pricing_notes]]
    IN  IF i.properties THEN [properties |-> Dict(obj), type |-> Plain("object")] ELSE obj

InitUnwrap ==
    /\ inp \in UnwrapInputs
    /\ out = NoOut
    /\ pc = "ready"
    /\ IdleProcess

ParseFrame ==
    UNCHANGED << db, committed, args, env, queue, total, applied, updates, calls,
                 saveErr, exit, prior, inp, tasks, sem >>

TextAnswer ==
    /\ pc = "ready"
    /\ inp.fn = "extract_with_llm"
    /\ out' = Res(ParseText(JsonAnswer(inp)), << Call("pricing", "llm") >>)
    /\ pc' = "done"
    /\ ParseFrame

VisionAnswer ==
    /\ pc = "ready"
    /\ inp.fn = "extract_pricing_from_images"
    /\ out' = Res(ParseVision(JsonAnswer(inp)), << Call("pricing", "vision") >>)
    /\ pc' = "done"
    /\ ParseFrame

NextUnwrap == TextAnswer \/ VisionAnswer

SpecUnwrap == InitUnwrap /\ [][NextUnwrap]_vars

(***************************************************************************)
(* extract_image_urls on its own.  A URL is its host and its path, each a  *)
(* sequence of the words the text is made of; a src with an empty host is  *)
(* relative.  The page is the sequence of its <img> and background-image   *)
(* occurrences.                                                            *)
(***************************************************************************)
MaxTags == 4
MaxCandidates == 3

Url(host, path) == [host |-> host, path |-> path]
Tag(kind, src) == [kind |-> kind, src |-> src]

PlainHost == << "joga", "pl" >>
PageHosts == { PlainHost, << "joga", "oferta", "pl" >> }
Tags == { Tag("img", Url(<< >>, << "img", "Cennik", "png" >>)),
          Tag("img", Url(PlainHost, << "img", "Cennik", "png" >>)),
          Tag("img", Url(<< >>, << "img", "studio", "jpg" >>)),
          Tag("img", Url(<< "cdn", "oferta", "pl" >>, << "photo", "jpg" >>)),
          Tag("bg", Url(<< >>, << "karnety", "jpg" >>)),
          Tag("bg", Url(<< >>, << "img", "PRICE", "list", "jpg" >>)) }

\* re.IGNORECASE on the words in use
FoldCase(w) ==
    CASE w = "Cennik" -> "cennik"
      [] w = "PRICE" -> "price"
      [] OTHER -> w

PricingKeywords == { "cennik", "price", "pricing", "menu-zabieg", "oferta", "karnety", "tariff" }

\* pricing_keywords.search(text)
Search(text) == \E k \in DOMAIN text : FoldCase(text[k]) \in PricingKeywords

\* urljoin(page_url, u) for a page at the root of page_host
UrlJoin(page_host, u) == IF u.host = << >> THEN Url(page_host, u.path) ELSE u

\* the srcs of the tags of one kind, in page order
RECURSIVE Srcs(_, _)
Srcs(tags, kind) ==
    IF tags = << >> THEN << >>
    ELSE (IF Head(tags).kind = kind THEN << Head(tags).src >> ELSE << >>)
         \o Srcs(Tail(tags), kind)

\* "Resolve relative URLs and deduplicate"
RECURSIVE Resolve(_, _, _)
Resolve(page_host, urls, resolved) ==
    IF urls = << >> THEN resolved
    ELSE LET full == UrlJoin(page_host, Head(urls))
         IN  Resolve(page_host, Tail(urls),
                     IF full \in Range(resolved) THEN resolved ELSE Append(resolved, full))

FirstN(urls, n) == IF Len(urls) > n THEN SubSeq(urls, 1, n) ELSE urls

\* pricing_keywords.search(u): the whole URL is searched
MatchesKeyword(u) == Search(u.host \o u.path)

ExtractImageUrls(tags, page_host) ==
    LET urls == Srcs(tags, "img") \o Srcs(tags, "bg")
        resolved == Resolve(page_host, urls, << >>)
        prioritized == SelectSeq(resolved, MatchesKeyword)
    IN  FirstN(prioritized, MaxCandidates)

ImageInputs ==
    [fn : { "extract_image_urls" }, page_host : PageHosts, tags : SeqsUpTo(Tags, MaxTags)]

InitImages ==
    /\ inp \in ImageInputs
    /\ out = NoOut
    /\ pc = "ready"
    /\ IdleProcess

CallExtractImageUrls ==
    /\ pc = "ready"
    /\ out' = Res(Some(ExtractImageUrls(inp.tags, inp.page_host)), << >>)
    /\ pc' = "done"
    /\ UNCHANGED << db, committed, args, env, queue, total, applied, updates, calls,
                    saveErr, exit, prior, inp, tasks, sem >>

SpecImages == InitImages /\ [][CallExtractImageUrls]_vars

(***************************************************************************)
(* fetch_html on its own.  What client.get does is given: it raises a      *)
(* transport error, or it follows the redirects and hands back the final   *)
(* response.  raise_for_status raises HTTPStatusError unless the status is *)
(* a 2xx.                                                                  *)
(***************************************************************************)
TransportErrors == { "ConnectError", "ReadTimeout", "TooManyRedirects", "UnsupportedProtocol" }
Statuses == { 200, 201, 204, 301, 304, 400, 404, 500, 503 }
Bodies == { "", "<html>Cennik</html>" }

Response(exc, status, text, redirected) ==
    [exc |-> exc, status |-> status, text |-> text, redirected |-> redirected]

GetOutcomes ==
    { Response(e, 0, "", FALSE) : e \in TransportErrors }
    \cup { Response("none", st, t, r) : st \in Statuses, t \in Bodies, r \in BOOLEAN }

FetchUrls == { "", "https://a/", "https://a/cennik" }

\* Response.is_success
IsSuccess(status) == status \in 200..299

\* faulty variant: only the except clause for HTTPStatusError
Catches_StatusOnly(exc) == exc = "HTTPStatusError"

\* except httpx.HTTPStatusError / except Exception
Catches(exc) == exc = "HTTPStatusError" \/ exc \in TransportErrors

\* fetch_html(url) when client.get(url) does what `got` says: the value
\* returned, the requests issued, and the exception that left the function
FetchHtml(url, got) ==
    IF url = "" THEN [data |-> None, calls |-> << >>, raised |-> "none"]
    ELSE LET get == << Call("page", "get") >>
             exc == IF got.exc # "none" THEN got.exc
                    ELSE IF ~IsSuccess(got.status) THEN "HTTPStatusError"
                    ELSE "none"
         IN  IF exc = "none" THEN [data |-> Some(got.text), calls |-> get, raised |-> "none"]
             ELSE IF Catches(exc) THEN [data |-> None, calls |-> get, raised |-> "none"]
             ELSE [data |-> None, calls |-> get, raised |-> exc]

FetchInputs == [fn : { "fetch_html" }, url : FetchUrls, got : GetOutcomes]

InitFetch ==
    /\ inp \in FetchInputs
    /\ out = NoOut
    /\ pc = "ready"
    /\ IdleProcess

CallFetchHtml ==
    /\ pc = "ready"
    /\ LET r == FetchHtml(inp.url, inp.got)
       IN  /\ out' = Res(r.data, r.calls)
           /\ exit' = IF r.raised = "none" THEN "none" ELSE "raised"
    /\ pc' = "done"
    /\ UNCHANGED << db, committed, args, env, queue, total, applied, updates, calls,
                    saveErr, prior, inp, tasks, sem >>

SpecFetch == InitFetch /\ [][CallFetchHtml]_vars

(***************************************************************************)
(* extract_pricing_from_images on its own, for up to three candidates      *)
(* (what extract_image_urls hands over), each with a download outcome and  *)
(* the answer of the vision request.                                       *)
(***************************************************************************)
VisionOutcomes == ImgOutcomes \cup { Img("ok", Att("data", TrialFree)),
                                     Img("ok", Att("json_error", EmptyObj)) }

VisionInputs ==
    [fn : { "extract_pricing_from_images" }, api_key : BOOLEAN,
     imgs : SeqsUpTo(VisionOutcomes, MaxCandidates)]

InitVision ==
    /\ inp \in VisionInputs
    /\ out = NoOut
    /\ pc = "ready"
    /\ IdleProcess

CallExtractPricingFromImages ==
    /\ pc = "ready"
    /\ out' = ExtractPricingFromImages(inp.api_key, inp.imgs)
    /\ pc' = "done"
    /\ UNCHANGED << db, committed, args, env, queue, total, applied, updates, calls,
                    saveErr, exit, prior, inp, tasks, sem >>

SpecVision == InitVision /\ [][CallExtractPricingFromImages]_vars

(***************************************************************************)
(* update_seeds of discover_urls.py on its own: the seeds of seeds.yaml, a *)
(* list of discoveries (school, discovered) as the probing or the crawl    *)
(* returns it, applied once and then once more.                            *)
(***************************************************************************)
MaxDiscoveries == 2

HintKeys == { "pricing_url", "schedule_url" }
Hints == { "", "https://s/manual" }
Seed(id, pricing_url, schedule_url) ==
    [id |-> id, pricing_url |-> pricing_url, schedule_url |-> schedule_url]
SeedLists == { << Seed("a", pa, sa), Seed("b", pb, sb) >> : pa, sa, pb, sb \in Hints }
Discovered == { EmptyObj, [pricing_url |-> "https://s/cennik"],
                [schedule_url |-> "https://s/grafik"],
                [pricing_url |-> "https://s/cennik", schedule_url |-> "https://s/grafik"] }
Discovery(school, discovered) == [school |-> school, discovered |-> discovered]
DiscoveryLists ==
    SeqsUpTo({ Discovery(id, d) : id \in { "a", "b", "zz" }, d \in Discovered }, MaxDiscoveries)

\* faulty variant: a discovered URL replaces the hint that is set
CanFill_Overwrite(seed, key, discovered) == Truthy(Get(discovered, key))

\* if discovered.get(key) and not seed.get(key)
CanFill(seed, key, discovered) == Truthy(Get(discovered, key)) /\ ~Truthy(seed[key])

\* the inner loop over ("pricing_url", "schedule_url") for one seed
FillSeed(seed, discovered) ==
    [k \in DOMAIN seed |->
       IF k \in HintKeys /\ CanFill(seed, k, discovered) THEN discovered[k] ELSE seed[k]]
Filled(seed, discovered) == Cardinality({ k \in HintKeys : CanFill(seed, k, discovered) })

\* update_seeds(seeds_data, discoveries): [seeds, updated]
RECURSIVE UpdateSeeds(_, _)
UpdateSeeds(seeds, discoveries) ==
    IF discoveries = << >> THEN [seeds |-> seeds, updated |-> 0]
    ELSE LET disc == Head(discoveries)
             hit == { k \in DOMAIN seeds : seeds[k].id = disc.school }
             n == IF hit = {} THEN 0
                  ELSE Filled(seeds[CHOOSE k \in hit : TRUE], disc.discovered)
             next == [k \in DOMAIN seeds |->
                        IF k \in hit THEN FillSeed(seeds[k], disc.discovered) ELSE seeds[k]]
             rest == UpdateSeeds(next, Tail(discoveries))
         IN  [seeds |-> rest.seeds, updated |-> n + rest.updated]

SeedsInputs == [fn : { "update_seeds" }, seeds : SeedLists, discoveries : DiscoveryLists]

InitSeeds ==
    /\ inp \in SeedsInputs
    /\ out = NoOut
    /\ pc = "ready"
    /\ IdleProcess

SeedsFrame ==
    UNCHANGED << db, committed, args, env, queue, total, applied, updates, calls,
                 saveErr, exit, prior, inp, tasks, sem >>

\* update_seeds(seeds_data, discoveries)
CallUpdateSeeds ==
    /\ pc = "ready"
    /\ inp.fn = "update_seeds"
    /\ LET r == UpdateSeeds(inp.seeds, inp.discoveries)
       IN  out' = [data |-> Some(r.seeds), calls |-> << >>, updated |-> r.updated]
    /\ pc' = "updated"
    /\ SeedsFrame

\* the same discoveries applied to the updated seeds
CallUpdateSeedsAgain ==
    /\ pc = "updated"
    /\ LET r == UpdateSeeds(out.data[1], inp.discoveries)
       IN  out' = [data |-> Some(r.seeds), calls |-> << >>, updated |-> r.updated]
    /\ pc' = "reapplied"
    /\ SeedsFrame

NextSeeds == CallUpdateSeeds \/ CallUpdateSeedsAgain

SpecSeeds == InitSeeds /\ [][NextSeeds]_vars

(***************************************************************************)
(* The legacy JSON merge of scrape.py: merge_results(existing, scraped).   *)
(* existing is the list of data.json (one entry per id), scraped the list  *)
(* of results of one run: partial results of a prices-only run or full     *)
(* listings.  by_id keeps the insertion order of its keys.                 *)
(***************************************************************************)
MaxScraped == 2

PriceKeys == { "price", "trialPrice", "singleClassPrice", "pricingNotes", "lastPriceCheck" }
CuratedKeys == { "rating", "reviews", "imageUrl", "description" }

\* an entry of data.json
Listing(id, price, reviews, description) ==
    [id |-> id, name |-> "Studio", price |-> price, trialPrice |-> Null,
     singleClassPrice |-> Null, pricingNotes |-> Null, lastPriceCheck |-> SeedDate,
     rating |-> IF reviews = "12" THEN "4.8" ELSE Null, reviews |-> reviews,
     imageUrl |-> "", description |-> description, source |-> "manual"]

\* what scrape_school returns with prices_only
PartialResult(id, price) ==
    [id |-> id, price |-> price, trialPrice |-> Null, singleClassPrice |-> Null,
     pricingNotes |-> Null, lastPriceCheck |-> TODAY, _partial |-> "True"]

\* what scrape_school returns otherwise
FullResult(id, price) ==
    [id |-> id, name |-> "Studio", price |-> price, trialPrice |-> Null,
     singleClassPrice |-> Null, pricingNotes |-> Null, lastPriceCheck |-> TODAY,
     rating |-> Null, reviews |-> Null, imageUrl |-> "", description |-> "",
     source |-> "crawl4ai"]

ExistingLists ==
    LET la == { Listing("a", p, r, d) : p \in { Null, "100" }, r \in { Null, "0", "12" },
                                        d \in { "", "Opis" } }
        lb == { Listing("b", "90", "12", "Opis") }
    IN  { << >> } \cup { << x >> : x \in la } \cup { << x, y >> : x \in la, y \in lb }
ScrapedLists ==
    SeqsUpTo({ PartialResult(id, p) : id \in { "a", "zz" }, p \in { Null, "150" } }
             \cup { FullResult(id, p) : id \in { "a", "zz" }, p \in { Null, "150" } },
             MaxScraped)

\* entry e with the values of the keys ks taken from f
SetKeys(e, ks, f) == [k \in (DOMAIN e) \cup ks |-> IF k \in ks THEN f[k] ELSE e[k]]
\* item.pop("_partial", None)
Pop(item, key) == [k \in (DOMAIN item) \ { key } |-> item[k]]

\* the position of id sid in by_id, 0 when it is not a key
IndexOf(entries, sid) ==
    IF \E k \in DOMAIN entries : entries[k].id = sid
    THEN CHOOSE k \in DOMAIN entries : entries[k].id = sid ELSE 0

\* one round of the loop over scraped
MergeItem(by_id, item) ==
    LET at == IndexOf(by_id, item.id)
    IN  IF Truthy(Get(item, "_partial"))
        THEN IF at = 0 THEN by_id
             ELSE [by_id EXCEPT ![at] =
                     SetKeys(@, { k \in PriceKeys : Get(item, k) # Null }, item)]
        ELSE LET kept == IF at = 0 THEN { }
                         ELSE { k \in CuratedKeys :
                                  ~Truthy(Get(item, k)) /\ Truthy(Get(by_id[at], k)) }
                 full == Pop(IF at = 0 THEN item ELSE SetKeys(item, kept, by_id[at]),
                             "_partial")
             IN  IF at = 0 THEN Append(by_id, full) ELSE [by_id EXCEPT ![at] = full]

RECURSIVE MergeResults(_, _)
MergeResults(existing, scraped) ==
    IF scraped = << >> THEN existing
    ELSE MergeResults(MergeItem(existing, Head(scraped)), Tail(scraped))

LegacyInputs == [fn : { "merge_results" }, existing : ExistingLists, scraped : ScrapedLists]

InitLegacy ==
    /\ inp \in LegacyInputs
    /\ out = NoOut
    /\ pc = "ready"
    /\ IdleProcess

CallMergeResults ==
    /\ pc = "ready"
    /\ out' = Res(Some(MergeResults(inp.existing, inp.scraped)), << >>)
    /\ pc' = "done"
    /\ UNCHANGED << db, committed, args, env, queue, total, applied, updates, calls,
                    saveErr, exit, prior, inp, tasks, sem >>

SpecLegacy == InitLegacy /\ [][CallMergeResults]_vars

(***************************************************************************)
(* Claims.                                                                 *)
(***************************************************************************)
\* the requests of the last scrape_school that belong to category cat
CallsOf(cat) == { k \in 1..Len(calls) : calls[k].cat = cat }
\* the rows db_update_schedule inserts for a list of classes
RowsOf(cl) == [k \in 1..Len(cl) |-> ScheduleRow(cl[k])]
NonEmpty(v) == v \notin { Null, "" }

\* C1 (as claimed): whenever the pricing cascade ran for a record in a non-dry
\* run and its save step finished without a persistence error, the record's
\* last_price_check is non-null afterwards, whatever the extraction returned.
C1_AttemptTracked ==
    [][ (pc = "save" /\ pc' = "loop" /\ ~args.dry_run /\ CallsOf("pricing") # {}
         /\ saveErr' = "none")
        => db'.schools[updates.id].last_price_check # Null ]_vars

\* C2: in a run with force=false, scrape_school makes no request for a category
\* of a record that is already attempted/complete in the store: pricing when
\* last_price_check is set, schedule when the record has an entry, about when
\* description_raw is non-empty.
C2_PlannerIdempotent ==
    (pc = "save" /\ ~args.force) =>
        LET id == updates.id
        IN  /\ db.schools[id].last_price_check # Null => CallsOf("pricing") = {}
            /\ Len(db.schedule[id]) > 0 => CallsOf("schedule") = {}
            /\ NonEmpty(db.schools[id].description_raw) => CallsOf("about") = {}

\* C2 witness: a later run without force reaches record "a", whose pricing was
\* stamped and whose schedule was stored by an earlier run, and requests only
\* the about page.
C2_Witness ==
    /\ pc = "save" /\ ~args.force /\ updates.id = "a"
    /\ db.schools["a"].last_price_check = TODAY
    /\ Len(db.schedule["a"]) > 0
    /\ CallsOf("pricing") = {} /\ CallsOf("schedule") = {} /\ CallsOf("about") # {}

\* C3: after db_update_pricing returns, each of the four pricing fields equals
\* the value in the result, or NULL when the result has none, and
\* last_price_check and last_updated equal the run date.
C3_PricingOverwrites ==
    (pc = "merged" /\ updates.pricing # None /\ saveErr = "none") =>
        LET p == updates.pricing[1]
            row == db.schools[updates.id]
        IN  /\ row.price = Get(p, "monthly_pass_pln")
            /\ row.trial_price = Get(p, "trial_price_pln")
            /\ row.single_class_price = Get(p, "single_class_pln")
            /\ row.pricing_notes = Get(p, "pricing_notes")
            /\ row.last_price_check = TODAY
            /\ row.last_updated = TODAY
            /\ committed.schools[updates.id] = row

\* C3 witness: price was 100, the result is {monthly: null, single: 20}; after
\* the merge the monthly price is NULL and the single price is 20.
C3_Witness ==
    /\ pc = "merged" /\ saveErr = "none" /\ updates.id = "a"
    /\ prior.schools["a"].price = "100"
    /\ updates.pricing = Some(PPartial)
    /\ db.schools["a"].price = Null
    /\ db.schools["a"].single_class_price = "20"

\* C4: after db_update_about returns, each of description_raw, phone and email
\* equals the new value when that is non-empty, and its prior value when the
\* new value is null, missing or empty.
C4_AboutNeverRegresses ==
    (pc = "merged" /\ updates.about # None /\ saveErr = "none") =>
        LET ab == updates.about[1]
            old == prior.schools[updates.id]
            new == db.schools[updates.id]
            Kept(v, o) == IF NonEmpty(v) THEN v ELSE o
        IN  /\ new.description_raw = Kept(Get(ab, "description_raw"), old.description_raw)
            /\ new.phone = Kept(Get(ab, "phone"), old.phone)
            /\ new.email = Kept(Get(ab, "email"), old.email)

\* C4 witness: the description was "X" and the phone "p1"; an about result with
\* an empty description and a null phone leaves both in place.
C4_Witness ==
    /\ pc = "merged" /\ saveErr = "none" /\ updates.id = "a"
    /\ prior.schools["a"].description_raw = "X"
    /\ updates.about = Some(AboutBlank)
    /\ db.schools["a"].description_raw = "X"
    /\ db.schools["a"].phone = "p1"

\* C5 (as claimed): after a schedule result is saved, the record's entries are
\* exactly the new set, for every new set down to the empty one.
C5_ScheduleReplacedAlways ==
    (pc = "merged" /\ updates.schedule # None /\ saveErr = "none") =>
        db.schedule[updates.id] = RowsOf(updates.schedule[1])

\* C5 (amended): after a non-empty schedule result is saved, the record's
\* entries are exactly the new set and none of the prior entries survive; an
\* empty result leaves the prior schedule as it was.
C5_ScheduleReplaced ==
    (pc = "merged" /\ updates.schedule # None /\ saveErr = "none") =>
        LET cl == updates.schedule[1]
        IN  IF Len(cl) > 0
            THEN /\ db.schedule[updates.id] = RowsOf(cl)
                 /\ committed.schedule[updates.id] = RowsOf(cl)
            ELSE db.schedule[updates.id] = prior.schedule[updates.id]

\* C5 witness: a two-entry schedule is replaced by a one-entry subset of it.
C5_Witness ==
    /\ pc = "merged" /\ saveErr = "none" /\ updates.id = "a"
    /\ prior.schedule["a"] = RowsOf(<< E1, E2 >>)
    /\ updates.schedule = Some(<< E2 >>)
    /\ db.schedule["a"] = RowsOf(<< E2 >>)

\* C6 (as claimed): in every committed store state a record's schedule is its
\* complete prior set or one complete extraction result, never part of one.
C6_ScheduleAtomic ==
    \A id \in Ids :
        committed.schedule[id] \in { << >> } \cup { RowsOf(cl) : cl \in ResultClassLists }

\* whether the merge of category cat of the result being saved took effect
Applied(cat) ==
    LET id == updates.id
    IN  CASE cat = "pricing" ->
               db'.schools[id] = UpdatePricingRow(db.schools[id], updates.pricing[1])
          [] cat = "schedule" ->
               db'.schedule[id] = RowsOf(updates.schedule[1])
          [] cat = "about" ->
               /\ db'.schools[id].last_updated = TODAY
               /\ db'.schools[id].description_raw =
                    KeepUnlessNonEmpty(GetD(updates.about[1], "description_raw", ""),
                                       db.schools[id].description_raw)

\* C7 (as claimed): when the merge of one category raises a persistence error,
\* the merges of the other categories that have results are still applied.
C7_MergesIndependent ==
    [][ (pc = "save" /\ ~args.dry_run /\ saveErr' # "none") =>
          /\ (saveErr' # "pricing" /\ TruthyOpt(updates.pricing)) => Applied("pricing")
          /\ (saveErr' # "schedule" /\ TruthyOpt(updates.schedule)) => Applied("schedule")
          /\ (saveErr' # "about" /\ TruthyOpt(updates.about)) => Applied("about") ]_vars

\* C8: a failure while one record is processed never ends the batch: the loop
\* is left only when no record remains (or on KeyboardInterrupt), and every
\* step of it keeps the remaining records or moves on to the next one.
C8_RecordIsolation ==
    [][ (pc \in { "loop", "save" }) =>
          ( /\ exit' # "fatal"
            /\ (pc' = "idle") => (queue = << >> \/ exit' \in { "interrupted", "killed" })
            /\ (pc' # "idle") => (queue' \in { queue, Tail(queue) }) ) ]_vars

\* C8 witness: the schedule merge of "a" raised half-way (its open transaction
\* still differs from the durable store), and the batch went on to scrape "b".
C8_Witness ==
    /\ pc = "save" /\ updates.id = "b"
    /\ db.schedule["a"] # committed.schedule["a"]

\* C9 (as claimed): in a process whose extraction credentials or seed file are
\* missing, no record of the store is modified.
C9_ConfigErrorTouchesNothing ==
    [][ (~env'.api_key \/ ~env'.seeds_file) => committed' = committed ]_vars

\* C10: a dry run changes nothing in the store, and in a dry run as in any
\* other the requests scrape_school makes are those the planner decided on.
C10_DryRun ==
    [][ /\ (pc # "idle" /\ args.dry_run) => (db' = db /\ committed' = committed)
        /\ (pc = "save") =>
             ( LET id == updates.id
               IN  /\ (CallsOf("pricing") # {}) <=> NeedsPricing(args.force, db.schools[id])
                   /\ (CallsOf("schedule") # {})
                        <=> NeedsSchedule(args.prices_only, args.force, HasScheduleInDb(db, id))
                   /\ (CallsOf("about") # {})
                        <=> NeedsAbout(args.prices_only, args.force, db.schools[id]) ) ]_vars

\* C10 witness: a dry run fetched and extracted a priced payload for a record
\* that was never checked, and is about to log it.
C10_Witness ==
    /\ pc = "save" /\ args.dry_run
    /\ HasPrices(updates.pricing)
    /\ db.schools[updates.id].last_price_check = Null
    /\ \E k \in CallsOf("pricing") : calls[k].kind = "llm"

PriceFields == { "monthly_pass_pln", "single_class_pln", "trial_price_pln" }
\* the object d carries a price: one of its price fields is not null (0 is a price)
PricePresent(d) == \E f \in PriceFields : Get(d, f) # Null
\* no answer of the extraction capability offered to this run carries a price
NoPriceOffered ==
    /\ \A k \in DOMAIN inp.o.p_text : ~PricePresent(inp.o.p_text[k].data)
    /\ \A k \in DOMAIN inp.o.p_imgs : ~PricePresent(inp.o.p_imgs[k].resp.data)
    /\ \A k \in DOMAIN inp.o.h_text : ~PricePresent(inp.o.h_text[k].data)

\* C11 (as claimed): whenever the pricing cascade ran and no tier yielded a
\* price field, the pricing result of scrape_school is a payload that is
\* neither null nor empty and has all three price fields null (the "attempted,
\* nothing found" marker), so that the category is not left untouched.
C11_MarkerEmitted ==
    (pc = "done" /\ inp.fn = "pricing_cascade" /\ NoPriceOffered) =>
        /\ TruthyOpt(out.data)
        /\ ~PricePresent(out.data[1])

\* C12: pricing is fetched for a record exactly when force is set or the
\* record's last_price_check is unset, whatever prices_only is and whatever
\* the price fields hold.
C12_PricingPlanned ==
    pc = "save" =>
        ( (CallsOf("pricing") # {})
            <=> (args.force \/ db.schools[updates.id].last_price_check = Null) )

\* C12 witness: a record whose earlier price check found nothing (stamp set,
\* all prices null) is reached by a prices-only run without force, and no
\* pricing request is made for it.
C12_Witness ==
    /\ pc = "save" /\ ~args.force /\ args.prices_only
    /\ db.schools[updates.id].last_price_check # Null
    /\ db.schools[updates.id].price = Null
    /\ db.schools[updates.id].trial_price = Null
    /\ db.schools[updates.id].single_class_price = Null
    /\ CallsOf("pricing") = {}

\* C13 (as claimed): schedule is fetched exactly when force is set, or
\* prices_only is not set and the record has no schedule entry; about exactly
\* when force is set, or prices_only is not set and the description is empty.
C13_PlannedForceFirst ==
    pc = "save" =>
        LET id == updates.id
        IN  /\ (CallsOf("schedule") # {})
                 <=> (args.force \/ (~args.prices_only /\ Len(db.schedule[id]) = 0))
            /\ (CallsOf("about") # {})
                 <=> (args.force
                      \/ (~args.prices_only /\ ~NonEmpty(db.schools[id].description_raw)))

\* C13 (amended): schedule is fetched exactly when prices_only is not set and
\* either force is set or the record has no schedule entry; about exactly when
\* prices_only is not set and either force is set or the description is empty.
C13_Planned ==
    pc = "save" =>
        LET id == updates.id
        IN  /\ (CallsOf("schedule") # {})
                 <=> (~args.prices_only /\ (args.force \/ Len(db.schedule[id]) = 0))
            /\ (CallsOf("about") # {})
                 <=> (~args.prices_only
                      /\ (args.force \/ ~NonEmpty(db.schools[id].description_raw)))

\* C13 witness: a forced full run fetches the schedule and the about page of a
\* record that already has schedule entries and a description.
C13_Witness ==
    /\ pc = "save" /\ args.force /\ ~args.prices_only
    /\ Len(db.schedule[updates.id]) > 0
    /\ NonEmpty(db.schools[updates.id].description_raw)
    /\ CallsOf("schedule") # {} /\ CallsOf("about") # {}

\* C14: in a prices-only run, with or without force, scrape_school makes no
\* schedule or about request and returns no schedule or about result, and the
\* save step changes no schedule entry, tag, association, description, phone
\* or email.
C14_PricesOnly ==
    [][ (pc = "save" /\ args.prices_only) =>
          ( /\ CallsOf("schedule") = {} /\ CallsOf("about") = {}
            /\ updates.schedule = None /\ updates.about = None
            /\ db'.schedule = db.schedule
            /\ db'.styles = db.styles
            /\ db'.school_styles = db.school_styles
            /\ \A id \in Ids :
                 /\ db'.schools[id].description_raw = db.schools[id].description_raw
                 /\ db'.schools[id].phone = db.schools[id].phone
                 /\ db'.schools[id].email = db.schools[id].email ) ]_vars

\* C14 witness: a forced prices-only run has merged a pricing result into
\* record "a", which still has no schedule entry and no description.
C14_Witness ==
    /\ pc = "loop" /\ args.prices_only /\ args.force /\ applied > 0
    /\ db.schools["a"].last_price_check = TODAY
    /\ db.schools["a"].price = "150"
    /\ Len(db.schedule["a"]) = 0
    /\ db.schools["a"].description_raw = ""

\* a tier result that populated a price field
Populated(r) == r # None /\ PricePresent(r[1])
\* the results of the text tier and of the visual tier for the run's input
TextTier == ExtractWithLlm("pricing", inp.api_key, inp.o.p_page, inp.o.p_text).data
VisualTier == ExtractPricingFromImages(inp.api_key, inp.o.p_imgs).data
VisionTried == \E k \in DOMAIN out.calls : out.calls[k].kind \in { "image", "vision" }
HomeTried == \E k \in DOMAIN out.calls : out.calls[k].kind = "fetch_home"
\* the tier request k of the run belongs to
TierOf(k) ==
    CASE out.calls[k].kind = "fetch" -> 1
      [] out.calls[k].kind \in { "image", "vision" } -> 2
      [] out.calls[k].kind = "fetch_home" -> 3
      [] OTHER -> IF \E j \in 1..(k - 1) : out.calls[j].kind = "fetch_home" THEN 3 ELSE 1

\* C15 (as claimed): the visual tier makes a request only when the text tier
\* populated no price field, the homepage tier only when neither the text nor
\* the visual tier populated one, and the requests of the run are in tier order.
C15_CascadeOrder ==
    (pc = "done" /\ inp.fn = "pricing_cascade") =>
        /\ VisionTried => ~Populated(TextTier)
        /\ HomeTried => (~Populated(TextTier) /\ ~(VisionTried /\ Populated(VisualTier)))
        /\ \A i, j \in DOMAIN out.calls : i < j => TierOf(i) <= TierOf(j)

\* C16 (as claimed): the homepage is fetched as the last pricing tier only for
\* a record that has a pricing URL hint different from its website URL; with
\* no hint, or a hint equal to the website URL, it is never fetched again.
C16_HomepageNeedsSeparateHint ==
    (pc = "done" /\ inp.fn = "pricing_cascade" /\ HomeTried) =>
        /\ Truthy(inp.seed.pricing_url)
        /\ inp.seed.pricing_url # inp.seed.website

\* a request that raised or returned malformed output
FailedAttempt(a) == a.kind \in { "error", "json_error" }

\* C17: one call of extract_with_llm makes at most 3 requests; it returns the
\* output of the first request that gives parseable structured output when
\* the requests before it failed, making no request after it; and after 3
\* failed requests it returns no result.
C17_BoundedRetry ==
    (pc = "done" /\ inp.fn = "extract_with_llm") =>
        LET n == Len(out.calls)
        IN  /\ n <= 3
            /\ (inp.page = "ok" /\ inp.api_key) =>
                 /\ \A k \in 1..3 :
                      ( /\ inp.attempts[k].kind = "data"
                        /\ \A j \in 1..(k - 1) : FailedAttempt(inp.attempts[j]) )
                      => (n = k /\ out.data = Some(inp.attempts[k].data))
                 /\ (\A k \in 1..3 : FailedAttempt(inp.attempts[k]))
                      => (n = 3 /\ out.data = None)

\* C17 witness: the first two requests fail (an error, then malformed output)
\* and the third returns an object, which is the result after three requests.
C17_Witness ==
    /\ pc = "done" /\ inp.fn = "extract_with_llm"
    /\ inp.attempts[1].kind = "error" /\ inp.attempts[2].kind = "json_error"
    /\ inp.attempts[3] = Att("data", Priced)
    /\ out.data = Some(Priced)
    /\ Len(out.calls) = 3

NoDup(rows) == \A i, j \in DOMAIN rows : rows[i] = rows[j] => i = j
IsPrefix(p, q) == Len(p) <= Len(q) /\ SubSeq(q, 1, Len(p)) = p
\* the tags of an about result: about.get("styles", []) when it is a non-empty list
TagsOf(ab) ==
    LET styles == GetD(ab, "styles", Some(<< >>))
    IN  IF TruthyOpt(styles) THEN Range(styles[1]) ELSE {}

\* C18: after db_update_about the record's tags are its prior tags united
\* with the result's tags, the prior associations and tag names are still
\* there as they were, no tag name and no association occurs twice, and the
\* tags of other records are unchanged.
C18_TagsAdditive ==
    (pc = "merged" /\ updates.about # None /\ saveErr = "none") =>
        LET id == updates.id
        IN  /\ Range(db.school_styles[id])
                 = Range(prior.school_styles[id]) \cup TagsOf(updates.about[1])
            /\ IsPrefix(prior.school_styles[id], db.school_styles[id])
            /\ IsPrefix(prior.styles, db.styles)
            /\ Range(db.styles) = Range(prior.styles) \cup TagsOf(updates.about[1])
            /\ NoDup(db.school_styles[id])
            /\ NoDup(db.styles)
            /\ \A other \in Ids \ {id} :
                 db.school_styles[other] = prior.school_styles[other]

\* C18 witness: record "a" is tagged Hatha; a result with the tags Hatha, Yin,
\* Hatha adds the tag Yin once and keeps Hatha.
C18_Witness ==
    /\ pc = "merged" /\ saveErr = "none" /\ updates.id = "a"
    /\ prior.school_styles["a"] = << "Hatha" >>
    /\ updates.about = Some(AboutY)
    /\ db.school_styles["a"] = << "Hatha", "Yin" >>
    /\ db.styles = << "Hatha", "Yin" >>

\* C19: a pricing merge sets the source of a discovery-only record to the
\* enriched value and leaves every other source value as it is; no merge of
\* any category changes a source in any other way, so an upgraded source
\* stays upgraded.
C19_SourceUpgrade ==
    (pc = "merged" /\ saveErr = "none") =>
        /\ updates.pricing # None =>
             db.schools[updates.id].source
               = IF prior.schools[updates.id].source = "google-places" THEN "crawl4ai"
                 ELSE prior.schools[updates.id].source
        /\ \A id \in Ids :
             \/ db.schools[id].source = prior.schools[id].source
             \/ /\ id = updates.id
                /\ prior.schools[id].source = "google-places"
                /\ db.schools[id].source = "crawl4ai"

\* C19 witness: a pricing merge upgraded the discovery-only record "a".
C19_Witness ==
    /\ pc = "merged" /\ saveErr = "none" /\ updates.id = "a"
    /\ updates.pricing # None
    /\ prior.schools["a"].source = "google-places"
    /\ db.schools["a"].source = "crawl4ai"
    /\ committed.schools["a"].source = "crawl4ai"

\* C20: in every state of every sequence of batch runs, as the connection sees
\* the store and as it is on disk, the record identifiers are exactly those
\* present at the start.
C20_RecordsFixed ==
    /\ DOMAIN db.schools = DOMAIN InitDb.schools
    /\ DOMAIN committed.schools = DOMAIN InitDb.schools

\* C20 witness: a run has ended after merging pricing, schedule and about
\* results into record "a".
C20_Witness ==
    /\ pc = "idle" /\ exit = "ok"
    /\ committed.schools["a"].last_price_check = TODAY
    /\ Len(committed.schedule["a"]) > 0
    /\ committed.schools["a"].description_raw = "X"
    /\ committed.school_styles["a"] = << "Hatha" >>

\* C21: calling a category merge a second time with the same result, right
\* after it returned, leaves the store (as the connection sees it and as it is
\* on disk) exactly as the first call left it.
C21_MergeIdempotent ==
    [][ (pc = "merged" /\ pc' = "remerged") => (db' = db /\ committed' = committed) ]_vars

\* C21 witness: a two-entry schedule result was merged twice into record "a",
\* which had a different schedule before, and the record has the two entries.
C21_Witness ==
    /\ pc = "remerged" /\ updates.id = "a"
    /\ updates.schedule = Some(<< E1, E2 >>)
    /\ prior.schedule["a"] = RowsOf(<< E2 >>)
    /\ db.schedule["a"] = RowsOf(<< E1, E2 >>)
    /\ committed.schedule["a"] = RowsOf(<< E1, E2 >>)

\* the four pricing fields and the attempt stamp of a row
PricingOf(row) ==
    << row.price, row.trial_price, row.single_class_price, row.pricing_notes,
       row.last_price_check >>
\* what a pricing merge of payload p writes into them
PricingWritten(p) ==
    << Get(p, "monthly_pass_pln"), Get(p, "trial_price_pln"), Get(p, "single_class_pln"),
       Get(p, "pricing_notes"), TODAY >>

\* C22: a record without last_price_check has all four pricing fields unset;
\* the pricing fields and the stamp of a record change only together, in a
\* pricing merge of that record, to exactly what that merge writes (or back to
\* the durable values when the connection is closed), and the durable values
\* change only to what the connection holds.
C22_PricesMoveWithStamp ==
    [][ \A id \in Ids :
          /\ db'.schools[id].last_price_check = Null
               => PricingOf(db'.schools[id]) = << Null, Null, Null, Null, Null >>
          /\ committed'.schools[id].last_price_check = Null
               => PricingOf(committed'.schools[id]) = << Null, Null, Null, Null, Null >>
          /\ PricingOf(db'.schools[id]) # PricingOf(db.schools[id])
               => \/ /\ pc = "save" /\ pc' = "loop" /\ id = updates.id
                     /\ TruthyOpt(updates.pricing)
                     /\ PricingOf(db'.schools[id]) = PricingWritten(updates.pricing[1])
                  \/ /\ pc' = "idle"
                     /\ db'.schools[id] = committed'.schools[id]
          /\ PricingOf(committed'.schools[id]) # PricingOf(committed.schools[id])
               => /\ pc = "save"
                  /\ \/ PricingOf(committed'.schools[id]) = PricingOf(db.schools[id])
                     \/ /\ id = updates.id /\ TruthyOpt(updates.pricing)
                        /\ PricingOf(committed'.schools[id])
                             = PricingWritten(updates.pricing[1]) ]_vars

\* C22 witness: record "a" carries the prices and the stamp of a pricing merge
\* while record "b", never checked, has no pricing field set.
C22_Witness ==
    /\ pc = "loop"
    /\ PricingOf(committed.schools["a"]) = PricingWritten(Priced)
    /\ PricingOf(committed.schools["b"]) = << Null, Null, Null, Null, Null >>

\* the durable stores in which the merges of the result being saved are
\* either whole or absent, category by category
WholeMerges ==
    IF pc = "save" /\ ~DryRun(args)
    THEN LET np == Len(PricingStmts(updates))
             ns == Len(ScheduleStmts(updates))
             stmts == SaveStmts(db, updates)
         IN  { ExecAll([db |-> db, committed |-> committed], stmts, n).committed :
               n \in { 0, np, np + ns, Len(stmts) } }
    ELSE { committed }

\* C23: a step in which the batch is interrupted ends the process with no
\* record left to start, abandons the open transaction, and leaves on disk
\* only whole category merges of the record in flight, never part of one.
C23_Cancellation ==
    [][ (pc \in { "loop", "save" } /\ exit' \in { "interrupted", "killed" }) =>
          ( /\ pc' = "idle"
            /\ queue' = << >>
            /\ db' = committed'
            /\ committed' \in WholeMerges ) ]_vars

\* C23 witness: the process was interrupted while saving record "a", after its
\* pricing merge was committed; nothing of its schedule or about is stored.
C23_Witness ==
    /\ pc = "idle" /\ exit = "killed"
    /\ committed.schools["a"].last_price_check = TODAY
    /\ Len(committed.schedule["a"]) = 0
    /\ committed.schools["a"].description_raw = ""
    /\ db = committed

InFlight == { i \in DOMAIN tasks : tasks[i].at = "in_flight" }

\* C24: at no time are more than `concurrency` probe_school executions in
\* flight, and the list probe_all_schools returns has exactly one entry for
\* each input school.
C24_BoundedProbing ==
    (inp.fn = "probe_all_schools") =>
        /\ Cardinality(InFlight) <= inp.concurrency
        /\ pc = "returned" =>
             /\ out.data # None
             /\ Len(out.data[1]) = inp.schools
             /\ \A i \in 1..inp.schools :
                  Cardinality({ k \in DOMAIN out.data[1] : out.data[1][k].school = i }) = 1

\* C24 witness: with concurrency 2 and three schools, two probes are in flight
\* and the third coroutine waits for a permit.
C24_Witness ==
    /\ inp.fn = "probe_all_schools" /\ inp.concurrency = 2 /\ inp.schools = 3
    /\ Cardinality(InFlight) = 2
    /\ \E i \in DOMAIN tasks : tasks[i].at = "waiting"
    /\ sem = 0

\* C25: every payload an extractor returns, on the text path and on the visual
\* path, has the top-level schema wrapper and the per-field schema-metadata
\* wrappers removed: every field value is a plain value or a list.
C25_EnvelopesRemoved ==
    (pc = "done" /\ inp.fn \in { "extract_with_llm", "extract_pricing_from_images" }
       /\ "properties" \in DOMAIN inp /\ out.data # None) =>
        \A k \in DOMAIN out.data[1] : out.data[1][k].t \in { "plain", "list" }

PathHasKeyword(u) == Search(u.path)

\* C26: extract_image_urls returns the deduplicated absolute image URLs whose
\* path contains a pricing keyword (case-insensitive), in their order of first
\* occurrence and never more than 3: no URL without a keyword in its path is
\* returned and no URL is returned twice.
C26_ImageCandidates ==
    (pc = "done" /\ inp.fn = "extract_image_urls") =>
        LET got == out.data[1]
            all == Resolve(inp.page_host, Srcs(inp.tags, "img") \o Srcs(inp.tags, "bg"), << >>)
        IN  /\ got = FirstN(SelectSeq(all, PathHasKeyword), MaxCandidates)
            /\ Len(got) <= MaxCandidates
            /\ NoDup(got)
            /\ \A k \in DOMAIN got : got[k].host # << >> /\ PathHasKeyword(got[k])

\* C27: fetch_html never raises: it returns no content for an empty URL
\* (without issuing a request), for a final status that is not a 2xx and for a
\* transport error, and it returns content only for a 2xx response.
C27_FetchFailuresAreValues ==
    (pc = "done" /\ inp.fn = "fetch_html") =>
        /\ exit = "none"
        /\ inp.url = "" => (out.data = None /\ out.calls = << >>)
        /\ (inp.url # "" /\ inp.got.exc # "none") => out.data = None
        /\ (inp.url # "" /\ inp.got.exc = "none" /\ inp.got.status \notin 200..299)
             => out.data = None
        /\ out.data # None =>
             /\ inp.url # "" /\ inp.got.exc = "none" /\ inp.got.status \in 200..299
             /\ out.data = Some(inp.got.text)

\* C27 witness: a read timeout on a non-empty URL has been answered with "no
\* content" after one request.
C27_Witness ==
    /\ pc = "done" /\ inp.fn = "fetch_html"
    /\ inp.url = "https://a/cennik" /\ inp.got.exc = "ReadTimeout"
    /\ out.data = None /\ Len(out.calls) = 1 /\ exit = "none"

\* the selection of a run before the limit is applied
Selected(d, a) == SchoolsToScrape(d, [a EXCEPT !.limit = 0])

\* C28: a batch run with limit n > 0 processes at most n records, the first n
\* of the selected records in selection order, and a run with limit 0 processes
\* every selected record; the records are processed from the head of that list
\* and in no other way.
C28_RecordLimit ==
    [][ /\ (pc = "idle" /\ pc' = "loop") =>
             LET sel == Selected(committed, args')
                 n == args'.limit
             IN  /\ total' = Len(queue')
                 /\ IsPrefix(queue', sel)
                 /\ n > 0 => Len(queue') = (IF Len(sel) < n THEN Len(sel) ELSE n)
                 /\ n = 0 => queue' = sel
        /\ (pc = "loop" /\ pc' = "save") => (updates'.id = Head(queue).id /\ queue' = queue)
        /\ (pc \in { "loop", "save" } /\ pc' = "loop") => queue' = Tail(queue)
      ]_vars

\* C28 witness: a run with limit 1 over a selection of more than one record is
\* saving its first record, which is the only one it will process.
C28_Witness ==
    /\ pc = "save" /\ args.limit = 1
    /\ Len(Selected(committed, args)) > 1
    /\ total = 1 /\ Len(queue) = 1
    /\ updates.id = Selected(committed, args)[1].id

\* the final log line of a run that is not a dry run: "Enriched %d / %d schools"
Summary(n_applied, n_total) == [enriched |-> n_applied, total |-> n_total]

\* the loop is left for the cleanup: it ran out of records or it was interrupted
RunEnds == pc = "loop" /\ pc' = "idle" /\ exit' \in { "ok", "interrupted" }

\* C29: at the end of a batch that is not a dry run, the processed count of the
\* summary is the number of records the loop processed, and the summary has a
\* count of the errors that occurred.
C29_SummaryCounts ==
    [][ (RunEnds /\ ~DryRun(args)) =>
          LET s == Summary(applied, total)
              \* the records the loop reached, the interrupted one included
              reached == IF queue = << >> THEN total ELSE total - Len(Tail(queue))
          IN  /\ s.total = reached
              /\ s.enriched <= s.total
              /\ "errors" \in DOMAIN s
      ]_vars

\* a run over the whole catalogue without --force and without --prices-only
PlainBatch(a) ==
    /\ ~a.force /\ ~a.prices_only
    /\ a.school = Null /\ a.city = Null /\ a.limit = 0

\* C30: every record that has a website and zero schedule entries is taken up
\* (to have its schedule page fetched and extracted again) by every batch run
\* with force = false and pricesOnly = false, whatever the state of its pricing
\* and description.
C30_EmptyScheduleRescraped ==
    [][ (pc = "idle" /\ pc' = "loop" /\ PlainBatch(args')) =>
          \A id \in Ids :
             (Truthy(SeedOf(School(committed, id)).website) /\ ~HasScheduleInDb(committed, id))
                => \E k \in DOMAIN queue' : queue'[k].id = id
      ]_vars

\* the exit status of the process for each way main ends: it returns (0),
\* calls sys.exit(1), or is left by an exception no handler catches (1)
ExitStatus(how) == IF how \in { "ok", "interrupted", "empty" } THEN 0 ELSE 1

\* C31: a batch that is not a dry run and had at least one record to enrich
\* ends with a non-zero exit status if and only if zero records succeeded.
C31_ExitStatus ==
    [][ (pc = "loop" /\ pc' = "idle" /\ exit' = "ok" /\ ~DryRun(args) /\ total > 0) =>
          (ExitStatus(exit') # 0 <=> applied = 0)
      ]_vars

\* the only price of payload d is a trial price of 0
OnlyFreeTrial(d) ==
    /\ Get(d, "trial_price_pln") = "0"
    /\ Get(d, "monthly_pass_pln") = Null
    /\ Get(d, "single_class_pln") = Null

\* C32: a trial price of 0 is a populated price: when the only price of the
\* text result is trial = 0 the cascade stops at tier 1 (no image, vision or
\* homepage request) and the payload handed to the merge is that text result.
C32_ZeroTrialPopulated ==
    (pc = "done" /\ inp.fn = "pricing_cascade" /\ TextTier # None
       /\ OnlyFreeTrial(TextTier[1])) =>
        /\ ~VisionTried
        /\ ~HomeTried
        /\ out.data = TextTier

\* the result of the visual tier when the pricing page was fetched, and of the
\* homepage tier for a seed that has a pricing hint beside its website
VisualPayload == IF inp.o.p_page # "fail" THEN VisualTier ELSE None
HomeTier ==
    IF Truthy(inp.seed.pricing_url) /\ Truthy(inp.seed.website)
    THEN ExtractWithLlm("pricing", inp.api_key, inp.o.h_page, inp.o.h_text).data
    ELSE None

\* C33: the pricing payload handed to the merge comes from exactly one tier: it
\* is the payload of the first tier (text, visual, homepage) that yields a price
\* field; when no tier yields one it is the text payload if there is one and
\* the marker otherwise.
C33_OneTierPayload ==
    (pc = "done" /\ inp.fn = "pricing_cascade") =>
        out.data = (IF Populated(TextTier) THEN TextTier
                    ELSE IF Populated(VisualPayload) THEN VisualPayload
                    ELSE IF Populated(HomeTier) THEN HomeTier
                    ELSE IF TextTier # None THEN TextTier
                    ELSE Some(Marker))

\* candidate k is downloaded as an image and its extraction yields a price field
Yields(k) ==
    /\ inp.api_key
    /\ inp.imgs[k].dl = "ok"
    /\ inp.imgs[k].resp.kind = "data"
    /\ PricePresent(inp.imgs[k].resp.data)

\* C34: extract_pricing_from_images takes the candidates in list order, skips a
\* candidate whose download or extraction fails or that is not an image, makes
\* no download or extraction call after the first candidate that yields a price
\* field and returns that candidate's payload; it returns no result when no
\* candidate yields a price.
C34_VisualTier ==
    (pc = "done" /\ inp.fn = "extract_pricing_from_images" /\ "imgs" \in DOMAIN inp) =>
        LET downloads == Cardinality({ k \in DOMAIN out.calls : out.calls[k].kind = "image" })
            hits == { k \in DOMAIN inp.imgs : Yields(k) }
        IN  IF hits = {}
            THEN downloads = Len(inp.imgs) /\ out.data = None
            ELSE LET first == CHOOSE k \in hits : \A j \in hits : k <= j
                 IN  /\ downloads = first
                     /\ out.data = Some(inp.imgs[first].resp.data)
                     /\ out.calls[Len(out.calls)].kind = "vision"

\* the attempts one call makes: up to the first that does not fail, at most 3
AttemptsMade ==
    LET ends == { k \in 1..(MaxRetries + 1) :
                    inp.api_key /\ ~FailedAttempt(inp.attempts[k]) }
    IN  IF ends = {} THEN MaxRetries + 1 ELSE CHOOSE k \in ends : \A j \in ends : k <= j

\* C35: within one extract_with_llm call the wait before retry k is 2^(k-1)
\* seconds, there is a wait between two attempts only (none after the last
\* attempt), and an empty response ends the call at once: no result, no retry
\* and no wait after it.
C35_Backoff ==
    (pc = "done" /\ inp.fn = "extract_with_llm" /\ inp.page = "ok") =>
        /\ Len(out.sleeps) = AttemptsMade - 1
        /\ Len(out.sleeps) <= MaxRetries
        /\ \A k \in DOMAIN out.sleeps : out.sleeps[k] = 2 ^ (k - 1)
        /\ \A k \in 2..Len(out.sleeps) : out.sleeps[k] = 2 * out.sleeps[k - 1]
        /\ (inp.api_key /\ inp.attempts[AttemptsMade].kind = "empty") =>
             (out.data = None /\ Len(out.calls) = AttemptsMade)

\* C35 witness: three failed attempts, with waits of 1 and 2 seconds between
\* them and none after the third.
C35_Witness ==
    /\ pc = "done" /\ inp.fn = "extract_with_llm" /\ inp.page = "ok" /\ inp.api_key
    /\ \A k \in 1..3 : FailedAttempt(inp.attempts[k])
    /\ out.sleeps = << 1, 2 >>
    /\ Len(out.calls) = 3

\* the fields of a row that only db_update_about writes
AboutOf(row) == << row.description_raw, row.phone, row.email >>

\* C36: the about merge is transactional.  A save step in which the about merge
\* fails persists none of that merge's description/phone/email update, and no
\* later save step, which commits the merges of another record, makes such an
\* update durable: a commit holds the write set of the merge that issues it and
\* nothing else.
C36_AboutTransactional ==
    [][ (pc = "save") =>
          /\ saveErr' = "about" =>
               AboutOf(committed'.schools[updates.id]) = AboutOf(committed.schools[updates.id])
          /\ \A id \in Ids \ { updates.id } :
               AboutOf(committed'.schools[id]) = AboutOf(committed.schools[id])
      ]_vars

\* what store d holds for record id: its row, schedule entries and tag links
RecordOf(d, id) == << d.schools[id], d.schedule[id], d.school_styles[id] >>

\* C37: a pricing, about or schedule merge for record R, whether it returns or
\* raises, leaves the row, the schedule entries and the tag associations of
\* every other record unchanged, in the connection and on disk; of the shared
\* state it can only extend the tag relation.
C37_RecordScoped ==
    [][ (pc \in { "ready", "merged" } /\ pc' \in { "merged", "remerged" }) =>
          /\ \A id \in Ids \ { updates'.id } :
               /\ RecordOf(db', id) = RecordOf(db, id)
               /\ RecordOf(committed', id) = RecordOf(committed, id)
          /\ IsPrefix(db.styles, db'.styles)
          /\ IsPrefix(committed.styles, committed'.styles)
      ]_vars

\* C37 witness: a schedule merge for record "b" has run on a store in which
\* record "a" has schedule entries, a price and tags, all still in place.
C37_Witness ==
    /\ pc = "merged" /\ saveErr = "none" /\ updates.id = "b"
    /\ updates.schedule # None /\ Len(db.schedule["b"]) > 0
    /\ Len(db.schedule["a"]) > 0 /\ db.schedule["a"] = prior.schedule["a"]
    /\ db.schools["a"].price = "100"
    /\ Len(db.school_styles["a"]) > 0

\* the category of the merge a step of the merge runs performs
MergedCat(u) ==
    IF u.pricing # None THEN "pricing" ELSE IF u.schedule # None THEN "schedule" ELSE "about"

\* C38: merges are category-scoped.  A pricing merge leaves the record's
\* description, phone, email, tags and schedule entries unchanged; an about
\* merge leaves its four pricing fields, last_price_check and schedule entries
\* unchanged; a schedule merge leaves every field of the record's row and its
\* tags unchanged.
C38_CategoryScoped ==
    [][ (pc \in { "ready", "merged" } /\ pc' \in { "merged", "remerged" }) =>
          LET id == updates'.id
              cat == MergedCat(updates')
          IN  /\ cat = "pricing" =>
                   /\ AboutOf(db'.schools[id]) = AboutOf(db.schools[id])
                   /\ db'.school_styles[id] = db.school_styles[id]
                   /\ db'.styles = db.styles
                   /\ db'.schedule[id] = db.schedule[id]
              /\ cat = "about" =>
                   /\ PricingOf(db'.schools[id]) = PricingOf(db.schools[id])
                   /\ db'.schedule[id] = db.schedule[id]
              /\ cat = "schedule" =>
                   /\ db'.schools[id] = db.schools[id]
                   /\ db'.school_styles[id] = db.school_styles[id]
                   /\ db'.styles = db.styles
      ]_vars

\* C38 witness: an about merge has rewritten the description of record "a" and
\* added a tag, and the price, the price check and the schedule entries that
\* earlier merges stored are as they were.
C38_Witness ==
    /\ pc = "merged" /\ saveErr = "none" /\ updates.id = "a" /\ updates.about = Some(AboutY)
    /\ prior.schools["a"].description_raw = "X"
    /\ db.schools["a"].description_raw = "Y"
    /\ db.schools["a"].price = "100" /\ db.schools["a"].last_price_check = TODAY
    /\ Len(db.schedule["a"]) > 0 /\ db.schedule["a"] = prior.schedule["a"]
    /\ Len(db.school_styles["a"]) > Len(prior.school_styles["a"])

\* the hint fields in which seed lists s and t differ
Changed(s, t) == { << k, key >> \in (DOMAIN s) \X HintKeys : s[k][key] # t[k][key] }

ItemsFor(sid) == { k \in DOMAIN inp.scraped : inp.scraped[k].id = sid }
LeftEmpty(v) == v \in { Null, "" }

\* C40: merge_results preserves unchanged every existing entry whose id was not
\* scraped; a partial result changes only the five price keys of an existing
\* entry and creates no entry for an unknown id; a full result replaces the
\* whole entry, except that rating, reviews, imageUrl and description keep
\* their old value when the scrape left them empty; the output has exactly one
\* entry per id.
C40_LegacyMerge ==
    (pc = "done" /\ inp.fn = "merge_results") =>
        LET merged == out.data[1]
            old(sid) == inp.existing[IndexOf(inp.existing, sid)]
            new(sid) == merged[IndexOf(merged, sid)]
            known(sid) == IndexOf(inp.existing, sid) # 0
        IN  /\ \A i, j \in DOMAIN merged : merged[i].id = merged[j].id => i = j
            /\ \A k \in DOMAIN inp.existing :
                 /\ IndexOf(merged, inp.existing[k].id) # 0
                 /\ ItemsFor(inp.existing[k].id) = {} => merged[k] = inp.existing[k]
            /\ \A sid \in { "a", "zz" } :
                 /\ (\A k \in ItemsFor(sid) : "_partial" \in DOMAIN inp.scraped[k]) =>
                      /\ ~known(sid) => IndexOf(merged, sid) = 0
                      /\ known(sid) =>
                           /\ DOMAIN new(sid) = DOMAIN old(sid)
                           /\ \A key \in (DOMAIN old(sid)) \ PriceKeys :
                                new(sid)[key] = old(sid)[key]
                 /\ (\E k \in ItemsFor(sid) :
                        /\ ItemsFor(sid) = { k }
                        /\ "_partial" \notin DOMAIN inp.scraped[k]) =>
                      LET item == inp.scraped[CHOOSE k \in ItemsFor(sid) : TRUE]
                      IN  /\ DOMAIN new(sid) = DOMAIN item
                          /\ \A key \in DOMAIN item :
                               new(sid)[key] =
                                  IF key \in CuratedKeys /\ known(sid) /\ LeftEmpty(item[key])
                                  THEN old(sid)[key] ELSE item[key]

====
